---- MODULE Spec2Model ----
(***************************************************************************)
(* strava-oauth-proxy: the webhook receiver, the in-memory event queue     *)
(* with its drain loop, the create / update / delete handlers and the      *)
(* spreadsheet row store they work on (src/index.js, lines 72-1016).       *)
(*                                                                         *)
(* Every `await` of the source is a point where another callback may run;  *)
(* the code between two awaits is one atomic step.  Every outbound call    *)
(* (Google Sheets, Strava) may succeed or fail.                            *)
(***************************************************************************)
EXTENDS Integers, Sequences, FiniteSets, TLC

(***************************************************************************)
(* Bounds of the model                                                     *)
(***************************************************************************)
MaxEvents == 2      \* webhook POSTs accepted in one behaviour
MaxTicks  == 1      \* readings of the clock lie in 0 .. MaxTicks * ClockStep
MaxTok    == 3      \* token pairs the token endpoint issues in one behaviour
NumDrain  == 2      \* drainQueue invocations that can be pending at once
MaxStr    == 2      \* length of the query parameters of GET /webhook
MaxJoins  == 3      \* OAuth callbacks one request slot serves in one behaviour
NumJoin   == 2      \* GET /join-callback requests that can be pending at once
MaxTz     == 2      \* the server's time zone lies in UTC-MaxTz .. UTC+MaxTz
MaxRows   == 4      \* data rows of a tab handed to deleteRows on its own
MaxCols   == 750    \* length of a header list handed to ensureTabWithHeaders

(***************************************************************************)
(* Constants of the program and of its environment                         *)
(***************************************************************************)
ExpiryBuffer == 60                  \* seconds, ensureFreshAccessToken
ClockStep    == ExpiryBuffer \div 2   \* granularity of the modelled clock
TokenLife    == 360 * ExpiryBuffer   \* lifetime of a token the endpoint issues
InitialExp   == ExpiryBuffer + ClockStep  \* expires_at stored at the start

Drains      == 1..NumDrain
Callbacks   == 1..NumJoin
ActivityIds == {1, 2}
AthleteIds  == {1}
Times       == {t * ClockStep : t \in 0..MaxTicks}
TabNames    == {"inbox", "activities", "segment_efforts", "athletes"}

Undef == "undefined"

(***************************************************************************)
(* Strava's side: the activity the API returns for an id.                  *)
(***************************************************************************)
OwnerOf(id) == 1
EffortsOf(id) == IF id = 1 THEN <<11, 12>> ELSE <<>>
StravaActivity(id) ==
    [id |-> id, name |-> "api_name", sport_type |-> "Run",
     visibility |-> "everyone", segment_efforts |-> EffortsOf(id)]

(***************************************************************************)
(* Webhook events.  uid is the identity of the event object (the order of  *)
(* arrival) and busy tells whether a drain pass was running when the event *)
(* was pushed; the program reads neither.                                  *)
(***************************************************************************)
NoUpdates == [title |-> Undef, visibility |-> Undef, private |-> Undef,
              type |-> Undef, sport_type |-> Undef]
TitleUpdate == [NoUpdates EXCEPT !.title = "hook_title"]

ActivityEvent(aspect, id, upd) ==
    [object_type |-> "activity", aspect_type |-> aspect, object_id |-> id,
     owner_id |-> OwnerOf(id), updates |-> upd, uid |-> 0,
     busy |-> FALSE]
OtherEvent ==
    [object_type |-> "athlete", aspect_type |-> "update", object_id |-> 1,
     owner_id |-> 1, updates |-> NoUpdates, uid |-> 0,
     busy |-> FALSE]
PostedEvents ==
    {ActivityEvent("create", i, NoUpdates) : i \in ActivityIds}
    \cup {ActivityEvent("delete", i, NoUpdates) : i \in ActivityIds}
    \cup {ActivityEvent("update", 1, TitleUpdate)}
    \cup {OtherEvent}
NoEvt ==
    [object_type |-> "", aspect_type |-> "", object_id |-> 0,
     owner_id |-> 0, updates |-> NoUpdates, uid |-> 0,
     busy |-> FALSE]

(***************************************************************************)
(* The spreadsheet.  A tab is [exists, hdr, rows]: hdr tells whether sheet *)
(* row 1 holds the header row, rows are the data rows in sheet order.      *)
(* With hdr the data row rows[i] is sheet row i + 1; without, it is sheet  *)
(* row i (values.append writes the first data row to the empty row 1).     *)
(* An id cell is [n, rep]: the number and how a read renders the cell:     *)
(* "plain" for the decimal digits of a string cell, "number" for a number  *)
(* given as its decimal digits, "sci" for scientific notation              *)
(* ("1.553864768E+10").                                                    *)
(***************************************************************************)
AbsentTab == [exists |-> FALSE, hdr |-> FALSE, rows |-> <<>>]
Off(tab) == IF tab.hdr THEN 1 ELSE 0

\* values.get of <tab>!A2:..., with the index of each value in rows
RowsFrom2(tab) == IF tab.hdr THEN tab.rows
                  ELSE IF tab.rows = <<>> THEN <<>> ELSE Tail(tab.rows)
\* sheet row of the i-th value (1-based) of a read that starts at row 2
SheetRowOf(i) == i + 1
\* index in rows of sheet row r
RowIdx(tab, r) == r - Off(tab)

\* String(v) of an id cell against String(id) of a number
StrEqId(cell, id) == cell.rep \in {"plain", "number"} /\ cell.n = id

\* idsEqual: equal as strings, or equal as numbers
idsEqual(cell, id) ==
    \/ StrEqId(cell, id)
    \/ cell.n = id

IdCell(n) == [n |-> n, rep |-> "plain"]

RECURSIVE Ascending(_)
\* the members of a finite set of numbers, in ascending order
Ascending(S) ==
    IF S = {} THEN <<>>
    ELSE LET m == CHOOSE x \in S : \A y \in S : x <= y
         IN  <<m>> \o Ascending(S \ {m})

Range(s) == {s[i] : i \in 1..Len(s)}

(***************************************************************************)
(* Row mappers (the columns the handlers and the claims look at)           *)
(***************************************************************************)
mapActivityRow(ownerId, a) ==
    [id |-> IdCell(a.id), athlete |-> ownerId, name |-> a.name,
     sport |-> a.sport_type, vis |-> a.visibility]

mapEffortRow(ownerId, a, e) ==
    [id |-> IdCell(a.id), athlete |-> ownerId, seg |-> e]

(***************************************************************************)
(* The derived columns of mapActivityRow and mapEffortRow.  Time is        *)
(* counted in hours, days are days of the year 2024, and the server's time *)
(* zone is tz hours east of UTC.  A timestamp string is the wall clock     *)
(* time it shows and whether it ends in 'Z'.                               *)
(***************************************************************************)
HoursPerDay == 24
NightHour == 22       \* localHour >= 22
LongRun == 5000       \* (a.distance || 0) >= 5000

MonthLengths == <<31, 29, 31, 30, 31, 30, 31, 31, 30, 31, 30, 31>>

DaysBefore[m \in 1..13] == IF m = 1 THEN 0 ELSE DaysBefore[m - 1] + MonthLengths[m - 1]

MonthOfDay(day) == CHOOSE m \in 1..12 : DaysBefore[m] < day /\ day <= DaysBefore[m + 1]

\* 0 is Sunday; the first of January 2024 was a Monday
DayOfWeek(day) == day % 7

CalendarDate(day) ==
    [year |-> 2024, month |-> MonthOfDay(day), date |-> day - DaysBefore[MonthOfDay(day)]]

\* new Date(string): the instant, in hours since 2023-12-31T00:00Z; a string
\* with 'Z' is UTC, a string without a zone is the server's local time
ParseDate(ts, tz) ==
    IF ts.zulu THEN ts.day * HoursPerDay + ts.hour
    ELSE ts.day * HoursPerDay + ts.hour - tz

\* the local fields of an instant: getDate/getMonth/getFullYear, getHours
LocalDay(t, tz) == (t + tz) \div HoursPerDay
getHours(t, tz) == (t + tz) % HoursPerDay

\* setDate(getDate() - getDay()); setHours(0,0,0,0): local midnight
LocalSunday(t, tz) ==
    (LocalDay(t, tz) - DayOfWeek(LocalDay(t, tz))) * HoursPerDay - tz

\* toISOString().split('T')[0]: the date in UTC
ISODate(t) == CalendarDate(t \div HoursPerDay)

\* weekStart.toISOString().split('T')[0]
weekStart(ts, tz) == ISODate(LocalSunday(ParseDate(ts, tz), tz))

\* `${getFullYear()}-${String(getMonth()+1).padStart(2,'0')}`
monthOf(ts, tz) ==
    [year |-> 2024, month |-> MonthOfDay(LocalDay(ParseDate(ts, tz), tz))]

\* (a.distance || 0)
OrZero(x) == IF x.given THEN x.m ELSE 0

\* isNight, is5k, localHour, week_start, month of mapActivityRow, and
\* week_start, month of mapEffortRow for an effort starting at e
DerivedColumns(a, e, tz) ==
    [is_night_run |-> getHours(ParseDate(a.start_date_local, tz), tz) >= NightHour,
     is_5k_plus |-> OrZero(a.distance) >= LongRun,
     local_hour |-> getHours(ParseDate(a.start_date_local, tz), tz),
     week_start |-> weekStart(a.start_date_local, tz),
     month |-> monthOf(a.start_date_local, tz),
     effort_week_start |-> weekStart(e, tz),
     effort_month |-> monthOf(e, tz)]

\* the activities and efforts read from the API, and the server's zones
StartDays == 161..183           \* 2024-06-09 .. 2024-07-01
StartHours == {0, 1, 21, 22, 23}
Timestamps == [day : StartDays, hour : StartHours, zulu : BOOLEAN]
NoDistance == [given |-> FALSE, m |-> 0]
Distances == {NoDistance} \cup [given : {TRUE}, m : {0, LongRun - 1, LongRun, 8000}]
Zones == (0 - MaxTz)..MaxTz
NoMapped == [asked |-> FALSE, tz |-> 0,
             a |-> [start_date_local |-> [day |-> 161, hour |-> 0, zulu |-> FALSE],
                    distance |-> NoDistance],
             row |-> <<>>]

AuditRow(e) ==
    [uid |-> e.uid, object_type |-> e.object_type,
     aspect_type |-> e.aspect_type, object_id |-> e.object_id]

(***************************************************************************)
(* GET /webhook.  A string is a sequence of characters, " " the white      *)
(* space; "subscribe" and "other" stand for the words.  A query parameter  *)
(* or an environment variable is [present, s].                             *)
(***************************************************************************)
Chars == {" ", "a", "b"}
RECURSIVE StringsUpTo(_)
StringsUpTo(n) ==
    IF n = 0 THEN {<<>>}
    ELSE StringsUpTo(n - 1)
         \cup {Append(s, c) : s \in {x \in StringsUpTo(n - 1) : Len(x) = n - 1}, c \in Chars}

Given(s) == [present |-> TRUE, s |-> s]
Missing == [present |-> FALSE, s |-> <<>>]
Unset == Missing

RECURSIVE TrimStart(_)
TrimStart(s) == IF s # <<>> /\ Head(s) = " " THEN TrimStart(Tail(s)) ELSE s
RECURSIVE TrimEnd(_)
TrimEnd(s) ==
    IF s # <<>> /\ s[Len(s)] = " " THEN TrimEnd(SubSeq(s, 1, Len(s) - 1)) ELSE s

\* String.prototype.trim
Trim(s) == TrimEnd(TrimStart(s))

\* (x || '')
OrEmpty(p) == IF p.present THEN p.s ELSE <<>>
\* !!x
Truthy(p) == p.present /\ p.s # <<>>

FailureBody == <<"Verification failed.">>

VerifyResponseLeaky(q, secret) ==
    IF /\ Trim(OrEmpty(q.mode)) = <<"subscribe">>
       /\ Trim(OrEmpty(q.token)) = Trim(OrEmpty(secret))
       /\ Truthy(q.challenge)
    THEN [status |-> 200, json |-> TRUE, body |-> q.challenge.s]
    ELSE [status |-> 403, json |-> FALSE,
          body |-> <<"expected">> \o Trim(OrEmpty(secret))]

VerifyResponseAnyChallenge(q, secret) ==
    IF /\ Trim(OrEmpty(q.mode)) = <<"subscribe">>
       /\ Trim(OrEmpty(q.token)) = Trim(OrEmpty(secret))
    THEN [status |-> 200, json |-> TRUE, body |-> q.challenge.s]
    ELSE [status |-> 403, json |-> FALSE, body |-> FailureBody]

\* app.get('/webhook'): the answer to the query q when STRAVA_VERIFY_TOKEN
\* is `secret`
VerifyResponse(q, secret) ==
    LET mode      == Trim(OrEmpty(q.mode))
        provided  == Trim(OrEmpty(q.token))
        challenge == q.challenge
        expected  == Trim(OrEmpty(secret))
        ok        == mode = <<"subscribe">> /\ provided = expected /\ Truthy(challenge)
    IN  IF ok THEN [status |-> 200, json |-> TRUE, body |-> challenge.s]
        ELSE [status |-> 403, json |-> FALSE, body |-> FailureBody]

ModeParams == {Missing, Given(<<"subscribe">>), Given(<<"subscribe", " ">>),
               Given(<<"other">>), Given(<<>>)}
TokenParams == {Missing} \cup {Given(s) : s \in StringsUpTo(MaxStr)}
ChallengeParams == {Missing, Given(<<>>), Given(<<"a">>), Given(<<" ">>)}
Requests == [mode : ModeParams, token : TokenParams, challenge : ChallengeParams]
SecretValues == {Unset} \cup {Given(s) : s \in StringsUpTo(1)}
                \cup {Given(<<"a", " ">>)}

NoProbe == [q |-> [mode |-> Missing, token |-> Missing, challenge |-> Missing],
            asked |-> FALSE,
            answer |-> <<[status |-> 0, json |-> FALSE, body |-> <<>>],
                         [status |-> 0, json |-> FALSE, body |-> <<>>]>>]

VARIABLES
    inboxQ,      \* the in-memory queue of events
    queueBusy,   \* the busy flag of drainQueue
    pc,          \* pc[d]: where drainQueue invocation d stands
    evt,         \* evt[d]: the event invocation d has shifted
    loc,         \* loc[d]: the locals of the handler invocation d runs
    tabs,        \* the spreadsheet
    now,         \* the latest reading of the clock
    issued,      \* token pairs issued by the token endpoint so far
    nPost,       \* POST /webhook requests received so far
    resp,        \* resp[u]: status sent to the u-th POST (0: none yet)
    deq,         \* uid of the event shifted last
    outcome,     \* how the last step ended
    secrets,     \* STRAVA_VERIFY_TOKEN of two deployments of the service
    verify,      \* the last GET /webhook request and what each answered
    join,        \* the GET /join-callback requests being served, if any
    mapped       \* the derived columns of the row mapped last, and its input

vars == <<inboxQ, queueBusy, pc, evt, loc, tabs, now, issued, nPost, resp,
          deq, outcome, secrets, verify, join, mapped>>

\* what the drain loop never touches
http == <<nPost, resp, secrets, verify, join, mapped>>

\* no callback is being served; n counts the callbacks served so far
\* seen tells whether its read of the athletes tab succeeded
NoJoin == [pc |-> "idle", id |-> 0, name |-> "", tok |-> 0, exp |-> 0,
           rowIndex |-> 0, status |-> 0, n |-> 0, seen |-> TRUE]
NoJoins == [c \in Callbacks |-> NoJoin]

\* the locals of a handler: caller is the handler that runs, ret where
\* processNewActivity returns to, clean whether every call made for the
\* event has succeeded so far
NoLoc == [caller |-> "", ret |-> "drain", clean |-> TRUE, rowIndex |-> 0,
          tab |-> "", activityRows |-> <<>>, effortRows |-> <<>>,
          auth |-> [rowIndex |-> 0, access |-> 0, refresh |-> 0, exp |-> 0],
          token |-> 0, data |-> 0,
          before |-> [activities |-> <<>>, segment_efforts |-> <<>>]]

AthleteRow(id, access, refresh, exp) ==
    [id |-> IdCell(id), name |-> "runner", access |-> access,
     refresh |-> refresh, exp |-> exp]

Tab(rows) == [exists |-> TRUE, hdr |-> TRUE, rows |-> rows]

\* a spreadsheet right after the first athlete joined
FreshStore ==
    [t \in TabNames |->
        IF t = "athletes" THEN Tab(<<AthleteRow(1, 1, 1, InitialExp)>>)
        ELSE AbsentTab]

\* the spreadsheet an earlier run of the service left behind, after create
\* events for the activities 1 and 2
UsedStore ==
    [t \in TabNames |->
        IF t = "athletes" THEN Tab(<<AthleteRow(1, 1, 1, InitialExp)>>)
        ELSE IF t = "activities"
        THEN Tab(<<mapActivityRow(1, StravaActivity(1)),
                   mapActivityRow(1, StravaActivity(2))>>)
        ELSE IF t = "segment_efforts"
        THEN Tab(<<mapEffortRow(1, StravaActivity(1), 11),
                   mapEffortRow(1, StravaActivity(1), 12)>>)
        ELSE Tab(<<AuditRow(ActivityEvent("create", 1, NoUpdates)),
                   AuditRow(ActivityEvent("create", 2, NoUpdates))>>)]

Init ==
    /\ inboxQ = <<>>
    /\ queueBusy = FALSE
    /\ pc = [d \in Drains |-> "idle"]
    /\ evt = [d \in Drains |-> NoEvt]
    /\ loc = [d \in Drains |-> NoLoc]
    /\ tabs \in {FreshStore, UsedStore}
    /\ now = 0
    /\ issued = 1
    /\ nPost = 0
    /\ resp = [u \in 1..MaxEvents |-> 0]
    /\ deq = 0
    /\ outcome = "ok"
    /\ secrets = <<Unset, Unset>>
    /\ verify = NoProbe
    /\ join = NoJoins
    /\ mapped = NoMapped

(***************************************************************************)
(* POST /webhook: acknowledge, then push the body on the queue.            *)
(***************************************************************************)
AckStatus == 200

PostWebhookLate(e) ==
    /\ nPost < MaxEvents
    /\ nPost' = nPost + 1
    /\ resp' = resp
    /\ inboxQ' = Append(inboxQ, [e EXCEPT !.uid = nPost + 1, !.busy = queueBusy])
    /\ outcome' = "ok"
    /\ UNCHANGED <<queueBusy, pc, evt, loc, tabs, now, issued, deq, secrets, verify,
                   join, mapped>>

PostWebhook(e) ==
    /\ nPost < MaxEvents
    /\ nPost' = nPost + 1
    /\ resp' = [resp EXCEPT ![nPost + 1] = AckStatus]      \* res.sendStatus(200)
    /\ inboxQ' = Append(inboxQ, [e EXCEPT !.uid = nPost + 1,      \* inboxQ.push
                                          !.busy = queueBusy])
    /\ outcome' = "ok"
    /\ UNCHANGED <<queueBusy, pc, evt, loc, tabs, now, issued, deq, secrets, verify,
                   join, mapped>>

(***************************************************************************)
(* drainQueue: control                                                     *)
(***************************************************************************)
ShiftMut(q) == [evt |-> q[Len(q)], rest |-> SubSeq(q, 1, Len(q) - 1)]
\* inboxQ.shift()
Shift(q) == [evt |-> Head(q), rest |-> Tail(q)]

AlreadyBusyMut == FALSE
\* if (queueBusy) return;
AlreadyBusy == queueBusy

LoopHeadOnce(d) ==
    IF Len(inboxQ) > 0 /\ pc[d] = "idle"
    THEN /\ evt' = [evt EXCEPT ![d] = Shift(inboxQ).evt]
         /\ inboxQ' = Shift(inboxQ).rest
         /\ deq' = Shift(inboxQ).evt.uid
         /\ pc' = [pc EXCEPT ![d] = "audit"]
         /\ loc' = [loc EXCEPT ![d] = NoLoc]
         /\ queueBusy' = TRUE
    ELSE /\ evt' = [evt EXCEPT ![d] = NoEvt]
         /\ pc' = [pc EXCEPT ![d] = "idle"]
         /\ loc' = [loc EXCEPT ![d] = NoLoc]
         /\ queueBusy' = FALSE
         /\ UNCHANGED <<inboxQ, deq>>

\* the head of `while (inboxQ.length)`: shift the next event and start its
\* audit write, or leave the loop and run `finally`
LoopHead(d) ==
    IF Len(inboxQ) > 0
    THEN /\ evt' = [evt EXCEPT ![d] = Shift(inboxQ).evt]
         /\ inboxQ' = Shift(inboxQ).rest
         /\ deq' = Shift(inboxQ).evt.uid
         /\ pc' = [pc EXCEPT ![d] = "audit"]
         /\ loc' = [loc EXCEPT ![d] = NoLoc]
         /\ queueBusy' = TRUE
    ELSE /\ evt' = [evt EXCEPT ![d] = NoEvt]
         /\ pc' = [pc EXCEPT ![d] = "idle"]
         /\ loc' = [loc EXCEPT ![d] = NoLoc]
         /\ queueBusy' = FALSE
         /\ UNCHANGED <<inboxQ, deq>>

AbortPassRequeue(d) ==
    /\ inboxQ' = <<evt[d]>> \o inboxQ
    /\ evt' = [evt EXCEPT ![d] = NoEvt]
    /\ pc' = [pc EXCEPT ![d] = "idle"]
    /\ loc' = [loc EXCEPT ![d] = NoLoc]
    /\ queueBusy' = FALSE
    /\ UNCHANGED deq

AbortPassFlagStays(d) ==
    /\ evt' = [evt EXCEPT ![d] = NoEvt]
    /\ pc' = [pc EXCEPT ![d] = "idle"]
    /\ loc' = [loc EXCEPT ![d] = NoLoc]
    /\ queueBusy' = TRUE
    /\ UNCHANGED <<inboxQ, deq>>

\* an exception reaches drainQueue's catch; finally resets the flag
AbortPass(d) ==
    /\ evt' = [evt EXCEPT ![d] = NoEvt]
    /\ pc' = [pc EXCEPT ![d] = "idle"]
    /\ loc' = [loc EXCEPT ![d] = NoLoc]
    /\ queueBusy' = FALSE
    /\ UNCHANGED <<inboxQ, deq>>

\* the handler goes on to its next await
Goto(d, label, l) ==
    /\ pc' = [pc EXCEPT ![d] = label]
    /\ loc' = [loc EXCEPT ![d] = l]
    /\ UNCHANGED <<inboxQ, queueBusy, evt, deq>>

TickFrees(d) ==
    /\ pc[d] = "idle"
    /\ \A d2 \in Drains : d2 < d => pc[d2] # "idle"
    /\ IF AlreadyBusy
       THEN /\ outcome' = "busy_return"
            /\ queueBusy' = FALSE
            /\ UNCHANGED <<inboxQ, pc, evt, loc, deq>>
       ELSE /\ outcome' = "ok"
            /\ LoopHead(d)
    /\ UNCHANGED <<tabs, now, issued, http>>

\* the timer fires: a drainQueue invocation starts
Tick(d) ==
    /\ pc[d] = "idle"
    /\ \A d2 \in Drains : d2 < d => pc[d2] # "idle"
    /\ IF AlreadyBusy
       THEN /\ outcome' = "busy_return"
            /\ UNCHANGED <<inboxQ, queueBusy, pc, evt, loc, deq>>
       ELSE /\ outcome' = "ok"
            /\ LoopHead(d)
    /\ UNCHANGED <<tabs, now, issued, http>>

(***************************************************************************)
(* Spreadsheet helpers                                                     *)
(***************************************************************************)
\* how a call of ensureTabWithHeaders can end: "throw" before anything is
\* changed, or, for a missing tab, after addSheet and before the header write
EnsureOutcomes(tab) ==
    IF tab.exists THEN {"ok", "throw"} ELSE {"ok", "throw", "throw_after_add"}

EnsureTab(tab, o) ==
    IF tab.exists \/ o = "throw" THEN tab
    ELSE IF o = "throw_after_add"
         THEN [exists |-> TRUE, hdr |-> FALSE, rows |-> <<>>]
         ELSE [exists |-> TRUE, hdr |-> TRUE, rows |-> <<>>]

AppendFirstRow(tab, rows) == [tab EXCEPT !.rows = @ \o SubSeq(rows, 1, 1)]

\* values.append with INSERT_ROWS: after the last row of the tab
AppendRows(tab, rows) == [tab EXCEPT !.rows = @ \o rows]

\* values.get of column A from row 2 down; a failed read counts as no rows
ColumnA(tab, readOk) ==
    IF readOk /\ tab.exists
    THEN [i \in 1..Len(RowsFrom2(tab)) |-> RowsFrom2(tab)[i].id]
    ELSE <<>>

\* readColumnA(tab).has(String(id))
readColumnAHas(tab, readOk, id) ==
    \E i \in 1..Len(ColumnA(tab, readOk)) : StrEqId(ColumnA(tab, readOk)[i], id)

\* findActivityRowIndex: sheet row of the first match in column A, 0 for null
findActivityRowIndex(tab, readOk, id) ==
    LET col == ColumnA(tab, readOk)
        hit == {i \in 1..Len(col) : StrEqId(col[i], id)}
    IN  IF hit = {} THEN 0
        ELSE SheetRowOf(CHOOSE i \in hit : \A j \in hit : i <= j)

\* getHeaderIndex(tab, 'activity_id') >= 0: row 1 holds the header texts
HasHeader(tab) == tab.exists /\ tab.hdr

\* findRowIndicesByHeader(tab, 'activity_id', id): sheet rows of all matches
findRowIndicesByHeader(tab, readOk, id) ==
    IF ~HasHeader(tab) THEN <<>>
    ELSE LET col == ColumnA(tab, readOk)
         IN  [k \in 1..Len(Ascending({i \in 1..Len(col) : idsEqual(col[i], id)}))
                |-> SheetRowOf(Ascending({i \in 1..Len(col) : idsEqual(col[i], id)})[k])]

KeepOrder(s) == s

RECURSIVE SortDescending(_)
\* [...rowIndices].sort((a, b) => b - a)
SortDescending(s) ==
    IF s = <<>> THEN <<>>
    ELSE LET m == CHOOSE i \in 1..Len(s) : \A j \in 1..Len(s) : s[i] >= s[j]
         IN  <<s[m]>> \o SortDescending(SubSeq(s, 1, m - 1) \o SubSeq(s, m + 1, Len(s)))

\* one deleteDimension request: sheet row r goes, the rows below move up
DeleteSheetRow(tab, r) ==
    IF r = 1 /\ tab.hdr THEN [tab EXCEPT !.hdr = FALSE]
    ELSE IF RowIdx(tab, r) \in 1..Len(tab.rows)
         THEN [tab EXCEPT !.rows = SubSeq(@, 1, RowIdx(tab, r) - 1)
                                     \o SubSeq(@, RowIdx(tab, r) + 1, Len(@))]
         ELSE tab

RECURSIVE ApplyDeletes(_, _)
\* batchUpdate applies its requests in the order given
ApplyDeletes(tab, reqs) ==
    IF reqs = <<>> THEN tab
    ELSE ApplyDeletes(DeleteSheetRow(tab, Head(reqs)), Tail(reqs))

deleteRowsUnsorted(tab, indices) ==
    IF indices = <<>> \/ ~tab.exists THEN tab
    ELSE ApplyDeletes(tab, indices)

\* deleteRows(tab, indices) when its calls succeed
deleteRows(tab, indices) ==
    IF indices = <<>> \/ ~tab.exists THEN tab
    ELSE ApplyDeletes(tab, SortDescending(indices))

WriteRowKeepsName(tab, r, row) ==
    IF RowIdx(tab, r) \in 1..Len(tab.rows)
    THEN [tab EXCEPT !.rows[RowIdx(tab, r)] = [row EXCEPT !.name = tab.rows[RowIdx(tab, r)].name]]
    ELSE tab

\* values.update of one whole data row / of some cells of it
WriteRow(tab, r, row) ==
    IF RowIdx(tab, r) \in 1..Len(tab.rows)
    THEN [tab EXCEPT !.rows[RowIdx(tab, r)] = row]
    ELSE tab

(***************************************************************************)
(* drainQueue, step 1: the audit row.  appendToSheet('inbox', ...) throws  *)
(* into the catch of drainQueue; otherwise the event is routed.            *)
(***************************************************************************)
IsAspect(e, aspect) == e.aspect_type = aspect

\* evt.object_type === 'activity' && evt.aspect_type === aspect
IsActivity(e, aspect) == e.object_type = "activity" /\ e.aspect_type = aspect

\* the locals at the start of a handler; before remembers the data rows
\* the handler found (the audit write does not touch them)
Entering(handler) ==
    [NoLoc EXCEPT !.caller = handler,
                  !.before = [activities |-> tabs["activities"].rows,
                              segment_efforts |-> tabs["segment_efforts"].rows]]

\* 2) Route by type/aspect
Route(d) ==
    IF IsActivity(evt[d], "create")
    THEN Goto(d, "new_ensure", Entering("new"))
    ELSE IF IsActivity(evt[d], "update")
    THEN Goto(d, "upd_ensure", Entering("upd"))
    ELSE IF IsActivity(evt[d], "delete")
    THEN Goto(d, "del_ensure", Entering("del"))
    ELSE LoopHead(d)

AuditedRowsActivityOnly(e) ==
    IF e.object_type = "activity" THEN <<AuditRow(e)>> ELSE <<>>

\* the rows handed to appendToSheet('inbox', ...): one row, whatever the event
AuditedRows(e) == <<AuditRow(e)>>

\* 1) Always write raw payload to "inbox" for auditing
Audit(d) ==
    /\ pc[d] = "audit"
    /\ \E o \in EnsureOutcomes(tabs["inbox"]), appended \in BOOLEAN :
         LET tab == EnsureTab(tabs["inbox"], o) IN
         IF o = "ok" /\ appended
         THEN /\ tabs' = [tabs EXCEPT !["inbox"] = AppendRows(tab, AuditedRows(evt[d]))]
              /\ outcome' = "ok"
              /\ Route(d)
         ELSE /\ tabs' = [tabs EXCEPT !["inbox"] = tab]
              /\ outcome' = "throw_drain"
              /\ AbortPass(d)
    /\ UNCHANGED <<now, issued, http>>

(***************************************************************************)
(* Leaving a handler.  processNewActivity returns to the drain loop or,    *)
(* when processActivityUpdate called it, to the second row lookup.         *)
(***************************************************************************)
ReturnToFirstLookup(d, l) ==
    IF l.caller = "new" /\ l.ret = "update"
    THEN Goto(d, "upd_lookup", [l EXCEPT !.caller = "upd", !.ret = "drain"])
    ELSE LoopHead(d)

Return(d, l) ==
    IF l.caller = "new" /\ l.ret = "update"
    THEN Goto(d, "upd_lookup2", [l EXCEPT !.caller = "upd", !.ret = "drain"])
    ELSE LoopHead(d)

Dirty(l) == [l EXCEPT !.clean = FALSE]

CaughtByDrain(d) ==
    /\ outcome' = "throw_drain"
    /\ AbortPass(d)

\* the handler's own try/catch takes the exception
Caught(d) ==
    /\ outcome' = "throw_handler"
    /\ Return(d, Dirty(loc[d]))

(***************************************************************************)
(* processNewActivity                                                      *)
(***************************************************************************)
NewEnsure(d) ==
    /\ pc[d] = "new_ensure"
    /\ \E o1 \in EnsureOutcomes(tabs["activities"]),
          o2 \in EnsureOutcomes(tabs["segment_efforts"]) :
         IF o1 # "ok"
         THEN /\ tabs' = [tabs EXCEPT !["activities"] = EnsureTab(@, o1)]
              /\ Caught(d)
         ELSE /\ tabs' = [tabs EXCEPT !["activities"] = EnsureTab(@, o1),
                                      !["segment_efforts"] = EnsureTab(@, o2)]
              /\ IF o2 # "ok" THEN Caught(d)
                 ELSE /\ outcome' = "ok"
                      /\ Goto(d, "new_dedupe", loc[d])
    /\ UNCHANGED <<now, issued, http>>

\* de-dupe by activity_id in activities!A
NewDedupe(d) ==
    /\ pc[d] = "new_dedupe"
    /\ \E r \in {"ok", "read_failed", "throw"} :
         IF r = "throw" THEN Caught(d)
         ELSE IF readColumnAHas(tabs["activities"], r = "ok", evt[d].object_id)
         THEN /\ outcome' = "ok"
              /\ Return(d, loc[d])                      \* duplicate, skipping
         ELSE /\ outcome' = r
              /\ Goto(d, "tok_read",
                      IF r = "ok" THEN loc[d] ELSE Dirty(loc[d]))
    /\ UNCHANGED <<tabs, now, issued, http>>

NewFetch(d) ==
    /\ pc[d] = "new_fetch"
    /\ \E ok \in BOOLEAN :
         IF ok THEN /\ outcome' = "ok"
                    /\ Goto(d, "new_append", loc[d])
         ELSE Caught(d)
    /\ UNCHANGED <<tabs, now, issued, http>>

NewAppend(d) ==
    /\ pc[d] = "new_append"
    /\ LET act == StravaActivity(evt[d].object_id) IN
       \E ok \in BOOLEAN :
         IF ok
         THEN /\ tabs' = [tabs EXCEPT !["activities"] =
                    AppendRows(@, <<mapActivityRow(evt[d].owner_id, act)>>)]
              /\ outcome' = "ok"
              /\ IF Len(act.segment_efforts) > 0
                 THEN Goto(d, "new_efforts", loc[d])
                 ELSE Return(d, loc[d])
         ELSE /\ UNCHANGED tabs
              /\ Caught(d)
    /\ UNCHANGED <<now, issued, http>>

NewEfforts(d) ==
    /\ pc[d] = "new_efforts"
    /\ LET act == StravaActivity(evt[d].object_id) IN
       \E ok \in BOOLEAN :
         IF ok
         THEN /\ tabs' = [tabs EXCEPT !["segment_efforts"] =
                    AppendRows(@, [i \in 1..Len(act.segment_efforts) |->
                        mapEffortRow(evt[d].owner_id, act, act.segment_efforts[i])])]
              /\ outcome' = "ok"
              /\ Return(d, loc[d])
         ELSE /\ UNCHANGED tabs
              /\ Caught(d)
    /\ UNCHANGED <<now, issued, http>>

(***************************************************************************)
(* ensureFreshAccessToken, for processNewActivity and processActivityUpdate*)
(***************************************************************************)
AfterToken(l) == IF l.caller = "new" THEN "new_fetch" ELSE "upd_fetch"

\* getAthleteAuth: the first athletes row whose id is the owner's
getAthleteAuth(tab, readOk, athleteId) ==
    LET rows == IF readOk /\ tab.exists THEN RowsFrom2(tab) ELSE <<>>
        hit  == {i \in 1..Len(rows) : StrEqId(rows[i].id, athleteId)}
    IN  IF hit = {} THEN [rowIndex |-> 0, access |-> 0, refresh |-> 0, exp |-> 0]
        ELSE LET i == CHOOSE i \in hit : \A j \in hit : i <= j
             IN  [rowIndex |-> SheetRowOf(i), access |-> rows[i].access,
                  refresh |-> rows[i].refresh, exp |-> rows[i].exp]

StillFreshNoBuffer(auth, t) ==
    auth.access # 0 /\ auth.exp # 0 /\ auth.exp > t

\* auth.access_token && auth.expires_at && auth.expires_at - 60 > now
StillFresh(auth, t) ==
    auth.access # 0 /\ auth.exp # 0 /\ auth.exp - ExpiryBuffer > t

TokRead(d) ==
    /\ pc[d] = "tok_read"
    /\ \E r \in {"ok", "read_failed", "throw"}, t \in Times :
         /\ t >= now
         /\ IF r = "throw" THEN Caught(d) /\ UNCHANGED now
            ELSE LET auth == getAthleteAuth(tabs["athletes"], r = "ok", evt[d].owner_id)
                     l == IF r = "ok" THEN loc[d] ELSE Dirty(loc[d])
                 IN  IF auth.rowIndex = 0
                     THEN /\ outcome' = IF r = "ok" THEN "no_athlete_row" ELSE r
                          /\ Return(d, l)
                          /\ UNCHANGED now
                     ELSE /\ now' = t
                          /\ outcome' = "ok"
                          /\ IF StillFresh(auth, t)
                             THEN Goto(d, AfterToken(l), [l EXCEPT !.token = auth.access])
                             ELSE Goto(d, "tok_refresh", [l EXCEPT !.auth = auth])
    /\ UNCHANGED <<tabs, issued, http>>

writeAthleteTokensNextRow(tab, rowIndex, access, refresh, exp) ==
    IF RowIdx(tab, rowIndex) + 1 \in 1..Len(tab.rows)
    THEN [tab EXCEPT !.rows[RowIdx(tab, rowIndex) + 1] =
            [@ EXCEPT !.access = access, !.refresh = refresh, !.exp = exp]]
    ELSE tab

\* values.update of athletes!C<row>:E<row>
writeAthleteTokens(tab, rowIndex, access, refresh, exp) ==
    IF RowIdx(tab, rowIndex) \in 1..Len(tab.rows)
    THEN [tab EXCEPT !.rows[RowIdx(tab, rowIndex)] =
            [@ EXCEPT !.access = access, !.refresh = refresh, !.exp = exp]]
    ELSE tab

TokRefreshClears(d) ==
    /\ pc[d] = "tok_refresh"
    /\ \/ /\ issued < MaxTok
          /\ issued' = issued + 1
          /\ outcome' = "ok"
          /\ Goto(d, "tok_write", [loc[d] EXCEPT !.data = issued + 1])
          /\ UNCHANGED tabs
       \/ /\ outcome' = "refresh_rejected"
          /\ tabs' = [tabs EXCEPT !["athletes"] =
                writeAthleteTokens(@, loc[d].auth.rowIndex, 0, 0, 0)]
          /\ Return(d, Dirty(loc[d]))
          /\ UNCHANGED issued
    /\ UNCHANGED <<now, http>>

TokRefreshGoesOn(d) ==
    /\ pc[d] = "tok_refresh"
    /\ \/ /\ issued < MaxTok
          /\ issued' = issued + 1
          /\ outcome' = "ok"
          /\ Goto(d, "tok_write", [loc[d] EXCEPT !.data = issued + 1])
       \/ /\ outcome' = "refresh_rejected"
          /\ Goto(d, AfterToken(loc[d]), Dirty(loc[d]))
          /\ UNCHANGED issued
    /\ UNCHANGED <<tabs, now, http>>

\* the refresh: axios.post to the token endpoint, inside try/catch
TokRefresh(d) ==
    /\ pc[d] = "tok_refresh"
    /\ \/ /\ issued < MaxTok                       \* the endpoint issues a pair
          /\ issued' = issued + 1
          /\ outcome' = "ok"
          /\ Goto(d, "tok_write", [loc[d] EXCEPT !.data = issued + 1])
       \/ /\ outcome' = "refresh_rejected"          \* caught: null token
          /\ Return(d, Dirty(loc[d]))
          /\ UNCHANGED issued
    /\ UNCHANGED <<tabs, now, http>>

TokWrite(d) ==
    /\ pc[d] = "tok_write"
    /\ \E ok \in BOOLEAN :
         IF ok
         THEN /\ tabs' = [tabs EXCEPT !["athletes"] =
                    writeAthleteTokens(@, loc[d].auth.rowIndex, loc[d].data,
                                       loc[d].data, now + TokenLife)]
              /\ outcome' = "ok"
              /\ Goto(d, AfterToken(loc[d]),
                      [loc[d] EXCEPT !.token = loc[d].data, !.data = 0,
                                     !.auth = NoLoc.auth])
         ELSE /\ UNCHANGED tabs
              /\ outcome' = "token_write_failed"
              /\ Return(d, Dirty(loc[d]))
    /\ UNCHANGED <<now, issued, http>>

(***************************************************************************)
(* processActivityUpdate                                                   *)
(***************************************************************************)
UpdEnsure(d) ==
    /\ pc[d] = "upd_ensure"
    /\ \E o \in EnsureOutcomes(tabs["activities"]) :
         /\ tabs' = [tabs EXCEPT !["activities"] = EnsureTab(@, o)]
         /\ IF o # "ok" THEN Caught(d)
            ELSE /\ outcome' = "ok"
                 /\ Goto(d, "upd_lookup", loc[d])
    /\ UNCHANGED <<now, issued, http>>

\* Ensure row exists; if not, fetch once
UpdLookup(d) ==
    /\ pc[d] = "upd_lookup"
    /\ \E r \in {"ok", "read_failed", "throw"} :
         IF r = "throw" THEN Caught(d)
         ELSE LET ri == findActivityRowIndex(tabs["activities"], r = "ok", evt[d].object_id)
                  l == IF r = "ok" THEN loc[d] ELSE Dirty(loc[d])
              IN  /\ outcome' = r
                  /\ IF ri # 0
                     THEN Goto(d, "upd_fast", [l EXCEPT !.rowIndex = ri])
                     ELSE Goto(d, "new_ensure",     \* processNewActivity first
                               [l EXCEPT !.caller = "new", !.ret = "update"])
    /\ UNCHANGED <<tabs, now, issued, http>>

UpdLookup2(d) ==
    /\ pc[d] = "upd_lookup2"
    /\ \E r \in {"ok", "read_failed", "throw"} :
         IF r = "throw" THEN Caught(d)
         ELSE LET ri == findActivityRowIndex(tabs["activities"], r = "ok", evt[d].object_id)
                  l == IF r = "ok" THEN loc[d] ELSE Dirty(loc[d])
              IN  /\ outcome' = IF ri # 0 THEN r ELSE "still_no_row"
                  /\ IF ri # 0
                     THEN Goto(d, "upd_fast", [l EXCEPT !.rowIndex = ri])
                     ELSE Return(d, l)              \* still no row: giving up
    /\ UNCHANGED <<tabs, now, issued, http>>

\* updates.private ? ... : ...  A value in angle brackets is a boolean, any
\* other a string; of these only false and the empty string are falsy
JsTruthy(v) == v \notin {"<false>", ""}

\* FAST PATH: the cell writes the payload asks for, in the order of the code;
\* without the header row getHeaderIndex is -1 and nothing is written
FastWrites(tab, u) ==
    IF ~HasHeader(tab) THEN <<>>
    ELSE (IF u.title # Undef THEN <<[col |-> "name", val |-> u.title]>> ELSE <<>>)
      \o (IF u.visibility # Undef
          THEN <<[col |-> "vis", val |-> u.visibility]>>
          ELSE IF u.private # Undef
          THEN <<[col |-> "vis",
                  val |-> IF JsTruthy(u.private) THEN "only_me" ELSE "everyone"]>>
          ELSE <<>>)
      \o (IF u.type # Undef THEN <<[col |-> "sport", val |-> u.type]>>
          ELSE IF u.sport_type # Undef
          THEN <<[col |-> "sport", val |-> u.sport_type]>>
          ELSE <<>>)

updateCellBelow(tab, r, w) ==
    IF RowIdx(tab, r + 1) \in 1..Len(tab.rows)
    THEN [tab EXCEPT !.rows[RowIdx(tab, r + 1)] =
            IF w.col = "name" THEN [@ EXCEPT !.name = w.val]
            ELSE IF w.col = "vis" THEN [@ EXCEPT !.vis = w.val]
            ELSE [@ EXCEPT !.sport = w.val]]
    ELSE tab

\* updateSingleCell on the data row at sheet row r
updateSingleCell(tab, r, w) ==
    IF RowIdx(tab, r) \in 1..Len(tab.rows)
    THEN [tab EXCEPT !.rows[RowIdx(tab, r)] =
            IF w.col = "name" THEN [@ EXCEPT !.name = w.val]
            ELSE IF w.col = "vis" THEN [@ EXCEPT !.vis = w.val]
            ELSE [@ EXCEPT !.sport = w.val]]
    ELSE tab

RECURSIVE ApplyWrites(_, _, _, _)
ApplyWrites(tab, r, ws, n) ==
    IF n = 0 THEN tab
    ELSE ApplyWrites(updateSingleCell(tab, r, Head(ws)), r, Tail(ws), n - 1)

UpdFast(d) ==
    /\ pc[d] = "upd_fast"
    /\ LET ws == FastWrites(tabs["activities"], evt[d].updates) IN
       \E n \in 0..Len(ws), thrown \in BOOLEAN :
         /\ thrown \/ n = Len(ws)
         /\ tabs' = [tabs EXCEPT !["activities"] = ApplyWrites(@, loc[d].rowIndex, ws, n)]
         /\ IF thrown THEN Caught(d)
            ELSE /\ outcome' = "ok"
                 /\ Goto(d, "tok_read", loc[d])     \* SLOW PATH
    /\ UNCHANGED <<now, issued, http>>

UpdFetch(d) ==
    /\ pc[d] = "upd_fetch"
    /\ \E ok \in BOOLEAN :
         IF ok THEN /\ outcome' = "ok"
                    /\ Goto(d, "upd_overwrite", loc[d])
         ELSE Caught(d)
    /\ UNCHANGED <<tabs, now, issued, http>>

UpdOverwrite(d) ==
    /\ pc[d] = "upd_overwrite"
    /\ \E ok \in BOOLEAN :
         IF ok
         THEN /\ tabs' = [tabs EXCEPT !["activities"] =
                    WriteRow(@, loc[d].rowIndex,
                        mapActivityRow(evt[d].owner_id, StravaActivity(evt[d].object_id)))]
              /\ outcome' = "ok"
              /\ Return(d, loc[d])
         ELSE /\ UNCHANGED tabs
              /\ Caught(d)
    /\ UNCHANGED <<now, issued, http>>

(***************************************************************************)
(* processActivityDelete                                                   *)
(***************************************************************************)
DelEnsure(d) ==
    /\ pc[d] = "del_ensure"
    /\ \E o1 \in EnsureOutcomes(tabs["activities"]),
          o2 \in EnsureOutcomes(tabs["segment_efforts"]) :
         IF o1 # "ok"
         THEN /\ tabs' = [tabs EXCEPT !["activities"] = EnsureTab(@, o1)]
              /\ Caught(d)
         ELSE /\ tabs' = [tabs EXCEPT !["activities"] = EnsureTab(@, o1),
                                      !["segment_efforts"] = EnsureTab(@, o2)]
              /\ IF o2 # "ok" THEN Caught(d)
                 ELSE /\ outcome' = "ok"
                      /\ Goto(d, "del_find", [loc[d] EXCEPT !.tab = "activities"])
    /\ UNCHANGED <<now, issued, http>>

\* 1) activities, then 2) segment_efforts, then the handler returns
DelNext(d, l) ==
    IF l.tab = "activities"
    THEN Goto(d, "del_find", [l EXCEPT !.tab = "segment_efforts"])
    ELSE LoopHead(d)

Found(l, m) ==
    IF l.tab = "activities" THEN [l EXCEPT !.activityRows = m]
    ELSE [l EXCEPT !.effortRows = m]

\* findRowIndicesByHeader(tab, 'activity_id', idStr) on the tab l.tab names
DelFind(d) ==
    /\ pc[d] = "del_find"
    /\ \E r \in {"ok", "read_failed", "throw"} :
         IF r = "throw" THEN Caught(d)
         ELSE LET m == findRowIndicesByHeader(tabs[loc[d].tab], r = "ok", evt[d].object_id)
                  l == Found(IF r = "ok" THEN loc[d] ELSE Dirty(loc[d]), m)
              IN  /\ outcome' = r
                  /\ IF Len(m) > 0
                     THEN Goto(d, "del_rows", l)
                     ELSE DelNext(d, l)
    /\ UNCHANGED <<tabs, now, issued, http>>

DelRows(d) ==
    /\ pc[d] = "del_rows"
    /\ \E ok \in BOOLEAN :
         IF ok
         THEN /\ tabs' = [tabs EXCEPT ![loc[d].tab] =
                    deleteRows(@, IF loc[d].tab = "activities"
                                  THEN loc[d].activityRows ELSE loc[d].effortRows)]
              /\ outcome' = "ok"
              /\ DelNext(d, loc[d])
         ELSE /\ UNCHANGED tabs
              /\ Caught(d)
    /\ UNCHANGED <<now, issued, http>>

(***************************************************************************)
(* GET /webhook, asked of two deployments that differ in the secret only   *)
(***************************************************************************)
\* the handler keeps no state: one request shows every answer it can give
GetWebhook(q) ==
    /\ ~verify.asked
    /\ verify' = [q |-> q, asked |-> TRUE,
                  answer |-> <<VerifyResponse(q, secrets[1]),
                               VerifyResponse(q, secrets[2])>>]
    /\ UNCHANGED <<inboxQ, queueBusy, pc, evt, loc, tabs, now, issued, nPost,
                   resp, deq, outcome, secrets, join, mapped>>

(***************************************************************************)
(* The program                                                             *)
(***************************************************************************)
Next ==
    \/ \E e \in PostedEvents : PostWebhook(e)
    \/ \E d \in Drains : Tick(d)
    \/ \E d \in Drains : Audit(d)
    \/ \E d \in Drains : NewEnsure(d)
    \/ \E d \in Drains : NewDedupe(d)
    \/ \E d \in Drains : TokRead(d)
    \/ \E d \in Drains : TokRefresh(d)
    \/ \E d \in Drains : TokWrite(d)
    \/ \E d \in Drains : NewFetch(d)
    \/ \E d \in Drains : NewAppend(d)
    \/ \E d \in Drains : NewEfforts(d)
    \/ \E d \in Drains : UpdEnsure(d)
    \/ \E d \in Drains : UpdLookup(d)
    \/ \E d \in Drains : UpdLookup2(d)
    \/ \E d \in Drains : UpdFast(d)
    \/ \E d \in Drains : UpdFetch(d)
    \/ \E d \in Drains : UpdOverwrite(d)
    \/ \E d \in Drains : DelEnsure(d)
    \/ \E d \in Drains : DelFind(d)
    \/ \E d \in Drains : DelRows(d)

Spec == Init /\ [][Next]_vars

\* the call a running pass awaits returns or throws
CallReturns ==
    \E d \in Drains :
        \/ Audit(d)
        \/ NewEnsure(d) \/ NewDedupe(d) \/ NewFetch(d) \/ NewAppend(d) \/ NewEfforts(d)
        \/ TokRead(d) \/ TokRefresh(d) \/ TokWrite(d)
        \/ UpdEnsure(d) \/ UpdLookup(d) \/ UpdLookup2(d) \/ UpdFast(d)
        \/ UpdFetch(d) \/ UpdOverwrite(d)
        \/ DelEnsure(d) \/ DelFind(d) \/ DelRows(d)

\* the behaviours in which setInterval keeps firing drainQueue and every
\* awaited call comes back
SpecLive ==
    /\ Init /\ [][Next]_vars
    /\ WF_vars(\E d \in Drains : Tick(d))
    /\ WF_vars(CallReturns)

(***************************************************************************)
(* GET /join-callback and upsertAthleteRow.  Every request runs on its own *)
(* and may overlap with the others at each await.                          *)
(***************************************************************************)
JoinAthletes == {1, 2}
JoinNames == {"runner", "renamed"}

\* the callback's catch: res.status(500).send('OAuth failed.')
JoinFailed(c) == [NoJoin EXCEPT !.status = 500, !.n = join[c].n]

JoinUnchanged ==
    UNCHANGED <<inboxQ, queueBusy, pc, evt, loc, now, nPost, resp, deq, outcome,
                secrets, verify, mapped>>

\* the code is exchanged for the athlete and a token pair
JoinExchange(c) ==
    /\ join[c].pc = "idle"
    /\ join[c].n < MaxJoins
    /\ \/ \E a \in JoinAthletes, nm \in JoinNames :
            /\ join' = [join EXCEPT ![c] =
                          [NoJoin EXCEPT !.pc = "ensure", !.id = a, !.name = nm,
                                         !.tok = issued + 1, !.exp = now + TokenLife,
                                         !.n = join[c].n + 1]]
            /\ issued' = issued + 1
       \/ /\ join' = [join EXCEPT ![c] = [JoinFailed(c) EXCEPT !.n = join[c].n + 1]]
          /\ UNCHANGED issued
    /\ UNCHANGED tabs
    /\ JoinUnchanged

\* ensureTabWithHeaders('athletes', ...), in the callback and again in
\* upsertAthleteRow
JoinEnsure(c) ==
    /\ join[c].pc \in {"ensure", "ensure2"}
    /\ \E o \in EnsureOutcomes(tabs["athletes"]) :
         /\ tabs' = [tabs EXCEPT !["athletes"] = EnsureTab(@, o)]
         /\ join' = [join EXCEPT ![c] =
                       IF o # "ok" THEN JoinFailed(c)
                       ELSE [@ EXCEPT !.pc = IF @ = "ensure" THEN "ensure2" ELSE "read"]]
    /\ UNCHANGED issued
    /\ JoinUnchanged

\* upsertAthleteRow: foundIndex + 2 for the first row of athletes!A2:E
\* whose id is the athlete's, 0 for foundIndex = -1
upsertFoundRow(tab, readOk, id) ==
    LET rows == IF readOk /\ tab.exists THEN RowsFrom2(tab) ELSE <<>>
        hit  == {i \in 1..Len(rows) : StrEqId(rows[i].id, id)}
    IN  IF hit = {} THEN 0
        ELSE SheetRowOf(CHOOSE i \in hit : \A j \in hit : i <= j)

JoinRead(c) ==
    /\ join[c].pc = "read"
    /\ \E readOk \in BOOLEAN :
         join' = [join EXCEPT ![c] =
                    [@ EXCEPT !.pc = "write", !.seen = readOk,
                              !.rowIndex = upsertFoundRow(tabs["athletes"], readOk,
                                                          join[c].id)]]
    /\ UNCHANGED <<tabs, issued>>
    /\ JoinUnchanged

\* appendRows for a new athlete, values.update of the row found otherwise;
\* then the confirmation page
JoinWrite(c) ==
    /\ join[c].pc = "write"
    /\ LET row == AthleteRow(join[c].id, join[c].tok, join[c].tok, join[c].exp)
           named == [row EXCEPT !.name = join[c].name]
       IN  \/ /\ tabs' = [tabs EXCEPT !["athletes"] =
                     IF join[c].rowIndex = 0 THEN AppendRows(@, <<named>>)
                     ELSE WriteRow(@, join[c].rowIndex, named)]
              /\ join' = [join EXCEPT ![c] =
                            [NoJoin EXCEPT !.status = 200, !.n = join[c].n]]
           \/ /\ UNCHANGED tabs
              /\ join' = [join EXCEPT ![c] = JoinFailed(c)]
    /\ UNCHANGED issued
    /\ JoinUnchanged

\* the service at rest on a fresh spreadsheet
InitRows ==
    /\ inboxQ = <<>>
    /\ queueBusy = FALSE
    /\ pc = [d \in Drains |-> "idle"]
    /\ evt = [d \in Drains |-> NoEvt]
    /\ loc = [d \in Drains |-> NoLoc]
    /\ tabs = FreshStore
    /\ now = 0
    /\ issued = 1
    /\ nPost = 0
    /\ resp = [u \in 1..MaxEvents |-> 0]
    /\ deq = 0
    /\ outcome = "ok"
    /\ secrets = <<Unset, Unset>>
    /\ verify = NoProbe
    /\ join = NoJoins
    /\ mapped = NoMapped

InitJoin ==
    /\ inboxQ = <<>>
    /\ queueBusy = FALSE
    /\ pc = [d \in Drains |-> "idle"]
    /\ evt = [d \in Drains |-> NoEvt]
    /\ loc = [d \in Drains |-> NoLoc]
    /\ tabs \in {FreshStore, [FreshStore EXCEPT !["athletes"] = AbsentTab]}
    /\ now = 0
    /\ issued = 1
    /\ nPost = 0
    /\ resp = [u \in 1..MaxEvents |-> 0]
    /\ deq = 0
    /\ outcome = "ok"
    /\ secrets = <<Unset, Unset>>
    /\ verify = NoProbe
    /\ join = NoJoins
    /\ mapped = NoMapped

\* one callback at a time
NextJoin == JoinExchange(1) \/ JoinEnsure(1) \/ JoinRead(1) \/ JoinWrite(1)

SpecJoin == InitJoin /\ [][NextJoin]_vars

\* overlapping callbacks: every request slot has one callback left to serve
InitOverlap ==
    /\ inboxQ = <<>>
    /\ queueBusy = FALSE
    /\ pc = [d \in Drains |-> "idle"]
    /\ evt = [d \in Drains |-> NoEvt]
    /\ loc = [d \in Drains |-> NoLoc]
    /\ tabs = FreshStore
    /\ now = 0
    /\ issued = 1
    /\ nPost = 0
    /\ resp = [u \in 1..MaxEvents |-> 0]
    /\ deq = 0
    /\ outcome = "ok"
    /\ secrets = <<Unset, Unset>>
    /\ verify = NoProbe
    /\ join = [c \in Callbacks |-> [NoJoin EXCEPT !.n = MaxJoins - 1]]
    /\ mapped = NoMapped

NextOverlap ==
    \E c \in Callbacks : JoinExchange(c) \/ JoinEnsure(c) \/ JoinRead(c) \/ JoinWrite(c)

SpecOverlap == InitOverlap /\ [][NextOverlap]_vars

(***************************************************************************)
(* The row mappers alone: one activity, whose effort starts when it does,  *)
(* is mapped on a server in one of the zones.                              *)
(***************************************************************************)
MapRows(a, tz) ==
    /\ ~mapped.asked
    /\ mapped' = [asked |-> TRUE, tz |-> tz, a |-> a,
                  row |-> DerivedColumns(a, a.start_date_local, tz)]
    /\ UNCHANGED <<inboxQ, queueBusy, pc, evt, loc, tabs, now, issued, nPost, resp,
                   deq, outcome, secrets, verify, join>>

NextRows ==
    \E ts \in Timestamps, dist \in Distances, tz \in Zones :
        MapRows([start_date_local |-> ts, distance |-> dist], tz)

SpecRows == InitRows /\ [][NextRows]_vars

(***************************************************************************)
(* The drain loop on one queued event of any kind: the events of           *)
(* PostedEvents, events of another object with each aspect, and an         *)
(* activity event with an aspect the loop does not know.                   *)
(***************************************************************************)
RoutedEvents ==
    PostedEvents
    \cup {[OtherEvent EXCEPT !.aspect_type = a] : a \in {"create", "update", "delete"}}
    \cup {ActivityEvent("archive", 1, NoUpdates)}

InitRoute ==
    /\ \E e \in RoutedEvents : inboxQ = <<[e EXCEPT !.uid = 1]>>
    /\ queueBusy = FALSE
    /\ pc = [d \in Drains |-> "idle"]
    /\ evt = [d \in Drains |-> NoEvt]
    /\ loc = [d \in Drains |-> NoLoc]
    /\ tabs \in {FreshStore, UsedStore}
    /\ now = 0
    /\ issued = 1
    /\ nPost = 1
    /\ resp = [u \in 1..MaxEvents |-> IF u = 1 THEN AckStatus ELSE 0]
    /\ deq = 0
    /\ outcome = "ok"
    /\ secrets = <<Unset, Unset>>
    /\ verify = NoProbe
    /\ join = NoJoins
    /\ mapped = NoMapped

NextRoute ==
    \/ \E d \in Drains : Tick(d)
    \/ \E d \in Drains : Audit(d)
    \/ \E d \in Drains : NewEnsure(d)
    \/ \E d \in Drains : NewDedupe(d)
    \/ \E d \in Drains : TokRead(d)
    \/ \E d \in Drains : TokRefresh(d)
    \/ \E d \in Drains : TokWrite(d)
    \/ \E d \in Drains : NewFetch(d)
    \/ \E d \in Drains : NewAppend(d)
    \/ \E d \in Drains : NewEfforts(d)
    \/ \E d \in Drains : UpdEnsure(d)
    \/ \E d \in Drains : UpdLookup(d)
    \/ \E d \in Drains : UpdLookup2(d)
    \/ \E d \in Drains : UpdFast(d)
    \/ \E d \in Drains : UpdFetch(d)
    \/ \E d \in Drains : UpdOverwrite(d)
    \/ \E d \in Drains : DelEnsure(d)
    \/ \E d \in Drains : DelFind(d)
    \/ \E d \in Drains : DelRows(d)

SpecRoute == InitRoute /\ [][NextRoute]_vars

(***************************************************************************)
(* processActivityUpdate on one queued update event with any combination   *)
(* of the fields a webhook can carry in `updates`.                         *)
(***************************************************************************)
UpdatePayloads ==
    [title : {Undef, "hook_title"},
     visibility : {Undef, "followers_only"},
     private : {Undef, "false", "<true>", "<false>"},
     type : {Undef, "Ride"},
     sport_type : {Undef, "TrailRun"}]

InitUpdate ==
    /\ \E i \in ActivityIds, u \in UpdatePayloads :
          inboxQ = <<[ActivityEvent("update", i, u) EXCEPT !.uid = 1]>>
    /\ queueBusy = FALSE
    /\ pc = [d \in Drains |-> "idle"]
    /\ evt = [d \in Drains |-> NoEvt]
    /\ loc = [d \in Drains |-> NoLoc]
    /\ tabs \in {FreshStore, UsedStore}
    /\ now = 0
    /\ issued = 1
    /\ nPost = 1
    /\ resp = [u \in 1..MaxEvents |-> IF u = 1 THEN AckStatus ELSE 0]
    /\ deq = 0
    /\ outcome = "ok"
    /\ secrets = <<Unset, Unset>>
    /\ verify = NoProbe
    /\ join = NoJoins
    /\ mapped = NoMapped

\* ensureFreshAccessToken for every stored token row: one create or update
\* event is queued, and the athletes tab holds no row of the owner, or a
\* row with or without an access token and with any of the expiry times
StoredExpiries == {k * ClockStep : k \in 0..(MaxTicks + 4)}

StoredAthletes ==
    {<<>>} \cup {<<AthleteRow(1, a, 1, e)>> : a \in {0, 1}, e \in StoredExpiries}

InitRefresh ==
    /\ \E e \in {ActivityEvent("create", 1, NoUpdates),
                  ActivityEvent("update", 1, TitleUpdate)} :
          inboxQ = <<[e EXCEPT !.uid = 1]>>
    /\ queueBusy = FALSE
    /\ pc = [d \in Drains |-> "idle"]
    /\ evt = [d \in Drains |-> NoEvt]
    /\ loc = [d \in Drains |-> NoLoc]
    /\ \E st \in {FreshStore, UsedStore}, rows \in StoredAthletes :
          tabs = [st EXCEPT !["athletes"] = Tab(rows)]
    /\ now \in Times
    /\ issued = 1
    /\ nPost = 1
    /\ resp = [u \in 1..MaxEvents |-> IF u = 1 THEN AckStatus ELSE 0]
    /\ deq = 0
    /\ outcome = "ok"
    /\ secrets = <<Unset, Unset>>
    /\ verify = NoProbe
    /\ join = NoJoins
    /\ mapped = NoMapped

NextRefresh ==
    \/ \E d \in Drains : Tick(d)
    \/ \E d \in Drains : Audit(d)
    \/ \E d \in Drains : NewEnsure(d)
    \/ \E d \in Drains : NewDedupe(d)
    \/ \E d \in Drains : TokRead(d)
    \/ \E d \in Drains : TokRefresh(d)
    \/ \E d \in Drains : TokWrite(d)
    \/ \E d \in Drains : NewFetch(d)
    \/ \E d \in Drains : NewAppend(d)
    \/ \E d \in Drains : NewEfforts(d)
    \/ \E d \in Drains : UpdEnsure(d)
    \/ \E d \in Drains : UpdLookup(d)
    \/ \E d \in Drains : UpdLookup2(d)
    \/ \E d \in Drains : UpdFast(d)
    \/ \E d \in Drains : UpdFetch(d)
    \/ \E d \in Drains : UpdOverwrite(d)

SpecRefresh == InitRefresh /\ [][NextRefresh]_vars

\* the owner's row among the rows of other athletes, and twice
StoredBeside ==
    LET own == {AthleteRow(1, 1, 1, e) : e \in StoredExpiries}
        other == AthleteRow(2, 1, 1, InitialExp)
    IN  {<<o, other>> : o \in own} \cup {<<other, o>> : o \in own}
        \cup {<<other, o, AthleteRow(1, 1, 1, InitialExp)>> : o \in own}

InitTokens ==
    /\ \E e \in {ActivityEvent("create", 1, NoUpdates),
                  ActivityEvent("update", 1, TitleUpdate)} :
          inboxQ = <<[e EXCEPT !.uid = 1]>>
    /\ queueBusy = FALSE
    /\ pc = [d \in Drains |-> "idle"]
    /\ evt = [d \in Drains |-> NoEvt]
    /\ loc = [d \in Drains |-> NoLoc]
    /\ \E st \in {FreshStore, UsedStore}, rows \in StoredBeside :
          tabs = [st EXCEPT !["athletes"] = Tab(rows)]
    /\ now \in Times
    /\ issued = 1
    /\ nPost = 1
    /\ resp = [u \in 1..MaxEvents |-> IF u = 1 THEN AckStatus ELSE 0]
    /\ deq = 0
    /\ outcome = "ok"
    /\ secrets = <<Unset, Unset>>
    /\ verify = NoProbe
    /\ join = NoJoins
    /\ mapped = NoMapped

SpecTokens == InitTokens /\ [][NextRefresh]_vars

\* the same activity mapped by two processes, one in zone tz1 and one in
\* zone tz2
MapTwice(a, tz1, tz2) ==
    /\ ~mapped.asked
    /\ mapped' = [asked |-> TRUE, tz |-> tz1, a |-> a,
                  row |-> <<DerivedColumns(a, a.start_date_local, tz1),
                            DerivedColumns(a, a.start_date_local, tz2)>>]
    /\ UNCHANGED <<inboxQ, queueBusy, pc, evt, loc, tabs, now, issued, nPost, resp,
                   deq, outcome, secrets, verify, join>>

NextPure ==
    \E ts \in Timestamps, dist \in Distances, tz1 \in Zones, tz2 \in Zones :
        /\ tz1 <= tz2
        /\ MapTwice([start_date_local |-> ts, distance |-> dist], tz1, tz2)

SpecPure == InitRows /\ [][NextPure]_vars

\* the three lookups by activity id on one activities tab whose ids are
\* stored in any of the representations
Representations == {"plain", "number", "sci"}
IdCells == {[n |-> n, rep |-> rep] : n \in ActivityIds, rep \in Representations}
RECURSIVE SeqsUpTo(_, _)
SeqsUpTo(S, n) ==
    IF n = 0 THEN {<<>>}
    ELSE SeqsUpTo(S, n - 1)
         \cup {Append(s, x) : s \in {t \in SeqsUpTo(S, n - 1) : Len(t) = n - 1}, x \in S}

SheetsOfIds ==
    {Tab([i \in 1..Len(cells) |->
            [mapActivityRow(1, StravaActivity(1)) EXCEPT !.id = cells[i]]]) :
        cells \in SeqsUpTo(IdCells, MaxRows)}

InitLookup ==
    /\ inboxQ = <<>>
    /\ queueBusy = FALSE
    /\ pc = [d \in Drains |-> "idle"]
    /\ evt = [d \in Drains |-> NoEvt]
    /\ loc = [d \in Drains |-> NoLoc]
    /\ \E tab \in SheetsOfIds : tabs = [UsedStore EXCEPT !["activities"] = tab]
    /\ now = 0
    /\ issued = 1
    /\ nPost = 0
    /\ resp = [u \in 1..MaxEvents |-> 0]
    /\ deq = 0
    /\ outcome = "ok"
    /\ secrets = <<Unset, Unset>>
    /\ verify = NoProbe
    /\ join = NoJoins
    /\ mapped = NoMapped

\* the lookups of the create, update and delete handlers for activity id,
\* every read succeeding
LookUp(id) ==
    /\ ~mapped.asked
    /\ mapped' = [NoMapped EXCEPT !.asked = TRUE,
                     !.row = [id |-> id,
                              existing |-> readColumnAHas(tabs["activities"], TRUE, id),
                              rowIndex |-> findActivityRowIndex(tabs["activities"], TRUE, id),
                              activityRows |->
                                  findRowIndicesByHeader(tabs["activities"], TRUE, id)]]
    /\ UNCHANGED <<inboxQ, queueBusy, pc, evt, loc, tabs, now, issued, nPost, resp,
                   deq, outcome, secrets, verify, join>>

NextLookup == \E id \in ActivityIds : LookUp(id)

SpecLookup == InitLookup /\ [][NextLookup]_vars

\* the header write of ensureTabWithHeaders on its own
Alphabet == <<"A", "B", "C", "D", "E", "F", "G", "H", "I", "J", "K", "L", "M",
              "N", "O", "P", "Q", "R", "S", "T", "U", "V", "W", "X", "Y", "Z">>
\* String.fromCharCode(65 + m)
Letter(m) == Alphabet[m + 1]

\* String.fromCharCode(64 + n): a capital letter for 1..26 only
SingleLetter(n) == IF n \in 1..Len(Alphabet) THEN <<Alphabet[n]>> ELSE <<"?">>

RECURSIVE ColLoop(_, _)
\* while (n > 0) { m = (n - 1) % 26; s = letter + s; n = floor((n - 1) / 26) }
ColLoop(n, s) ==
    IF n > 0 THEN ColLoop((n - 1) \div Len(Alphabet),
                          <<Letter((n - 1) % Len(Alphabet))>> \o s)
    ELSE s

colToA1(n) == ColLoop(n, <<>>)

\* the range `${tabName}!A1:${colToA1(headers.length)}1` of the header write
HeaderRange(tabName, headers) ==
    [tab |-> tabName, from |-> [col |-> <<"A">>, row |-> 1],
     to |-> [col |-> colToA1(Len(headers)), row |-> 1]]

\* the lengths of the header lists the program declares: athletes, inbox,
\* segment_efforts, activities
DeclaredWidths == {5, 6, 20, 37}

WriteHeaders(n) ==
    /\ ~mapped.asked
    /\ mapped' = [NoMapped EXCEPT !.asked = TRUE,
                     !.row = [headers |-> n,
                              range |-> HeaderRange("activities", [i \in 1..n |-> i])]]
    /\ UNCHANGED <<inboxQ, queueBusy, pc, evt, loc, tabs, now, issued, nPost, resp,
                   deq, outcome, secrets, verify, join>>

NextHeaders == \E n \in 1..MaxCols : WriteHeaders(n)

SpecHeaders == InitRows /\ [][NextHeaders]_vars

\* deleteRows on its own: a tab of up to MaxRows data rows, with its header
\* row or without, and the indices in any order
SheetsOfRows ==
    {[exists |-> TRUE, hdr |-> h,
      rows |-> [i \in 1..n |-> [mapActivityRow(1, StravaActivity(1))
                                  EXCEPT !.id = IdCell(i)]]] :
        h \in BOOLEAN, n \in 0..MaxRows}

RECURSIVE Orderings(_)
\* the sequences that list every element of S once
Orderings(S) ==
    IF S = {} THEN {<<>>}
    ELSE UNION {{<<x>> \o s : s \in Orderings(S \ {x})} : x \in S}

IndexLists(tab) ==
    UNION {Orderings(S) : S \in SUBSET (1..(Off(tab) + Len(tab.rows)))}

InitBatch ==
    /\ inboxQ = <<>>
    /\ queueBusy = FALSE
    /\ pc = [d \in Drains |-> "idle"]
    /\ evt = [d \in Drains |-> NoEvt]
    /\ loc = [d \in Drains |-> NoLoc]
    /\ \E tab \in SheetsOfRows : tabs = [FreshStore EXCEPT !["activities"] = tab]
    /\ now = 0
    /\ issued = 1
    /\ nPost = 0
    /\ resp = [u \in 1..MaxEvents |-> 0]
    /\ deq = 0
    /\ outcome = "ok"
    /\ secrets = <<Unset, Unset>>
    /\ verify = NoProbe
    /\ join = NoJoins
    /\ mapped = NoMapped

\* a call deleteRows('activities', indices) whose requests succeed
CallDeleteRows(indices) ==
    /\ ~mapped.asked
    /\ tabs' = [tabs EXCEPT !["activities"] = deleteRows(@, indices)]
    /\ mapped' = [NoMapped EXCEPT !.asked = TRUE,
                     !.row = [tab |-> tabs["activities"], indices |-> indices,
                              requests |-> SortDescending(indices)]]
    /\ UNCHANGED <<inboxQ, queueBusy, pc, evt, loc, now, issued, nPost, resp,
                   deq, outcome, secrets, verify, join>>

NextBatch == \E indices \in IndexLists(tabs["activities"]) : CallDeleteRows(indices)

SpecBatch == InitBatch /\ [][NextBatch]_vars

\* create events only: a spreadsheet that holds the activities ids, with
\* their segment efforts
StoreWith(ids) ==
    LET held == SelectSeq(<<1, 2>>, LAMBDA id : id \in ids)
        efforts(id) == [i \in 1..Len(EffortsOf(id)) |->
                          mapEffortRow(OwnerOf(id), StravaActivity(id), EffortsOf(id)[i])]
    IN  [t \in TabNames |->
           IF t = "athletes" THEN Tab(<<>>)
           ELSE IF ids = {} THEN AbsentTab
           ELSE IF t = "activities"
           THEN Tab([i \in 1..Len(held) |->
                       mapActivityRow(OwnerOf(held[i]), StravaActivity(held[i]))])
           ELSE IF t = "segment_efforts"
           THEN Tab(IF 1 \in ids THEN efforts(1) ELSE <<>>)
           ELSE Tab([i \in 1..Len(held) |->
                       AuditRow(ActivityEvent("create", held[i], NoUpdates))])]

CreateQueues ==
    LET c(id, u) == [ActivityEvent("create", id, NoUpdates) EXCEPT !.uid = u]
    IN  {<<c(1, 1)>>, <<c(2, 1)>>, <<c(1, 1), c(2, 2)>>, <<c(2, 1), c(1, 2)>>}

InitCreate ==
    /\ inboxQ \in CreateQueues
    /\ queueBusy = FALSE
    /\ pc = [d \in Drains |-> "idle"]
    /\ evt = [d \in Drains |-> NoEvt]
    /\ loc = [d \in Drains |-> NoLoc]
    /\ \E ids \in SUBSET ActivityIds,
          rows \in {<<>>, <<AthleteRow(1, 1, 1, InitialExp)>>,
                    <<AthleteRow(1, 1, 1, TokenLife)>>} :
          tabs = [StoreWith(ids) EXCEPT !["athletes"] = Tab(rows)]
    /\ now = 0
    /\ issued = 1
    /\ nPost = Len(inboxQ)
    /\ resp = [u \in 1..MaxEvents |-> IF u <= Len(inboxQ) THEN AckStatus ELSE 0]
    /\ deq = 0
    /\ outcome = "ok"
    /\ secrets = <<Unset, Unset>>
    /\ verify = NoProbe
    /\ join = NoJoins
    /\ mapped = NoMapped

NextCreate ==
    \/ \E d \in Drains : Tick(d)
    \/ \E d \in Drains : Audit(d)
    \/ \E d \in Drains : NewEnsure(d)
    \/ \E d \in Drains : NewDedupe(d)
    \/ \E d \in Drains : TokRead(d)
    \/ \E d \in Drains : TokRefresh(d)
    \/ \E d \in Drains : TokWrite(d)
    \/ \E d \in Drains : NewFetch(d)
    \/ \E d \in Drains : NewAppend(d)
    \/ \E d \in Drains : NewEfforts(d)

SpecCreate == InitCreate /\ [][NextCreate]_vars

\* a create event whose token may need a refresh, drained while one OAuth
\* callback is served
InitRace ==
    /\ inboxQ = <<[ActivityEvent("create", 1, NoUpdates) EXCEPT !.uid = 1]>>
    /\ queueBusy = FALSE
    /\ pc = [d \in Drains |-> "idle"]
    /\ evt = [d \in Drains |-> NoEvt]
    /\ loc = [d \in Drains |-> NoLoc]
    /\ \E e \in {0, InitialExp} :
          tabs = [FreshStore EXCEPT !["athletes"] = Tab(<<AthleteRow(1, 1, 1, e)>>)]
    /\ now = 0
    /\ issued = 1
    /\ nPost = 1
    /\ resp = [u \in 1..MaxEvents |-> IF u = 1 THEN AckStatus ELSE 0]
    /\ deq = 0
    /\ outcome = "ok"
    /\ secrets = <<Unset, Unset>>
    /\ verify = NoProbe
    /\ join = [c \in Callbacks |->
                 [NoJoin EXCEPT !.n = IF c = 1 THEN MaxJoins - 1 ELSE MaxJoins]]
    /\ mapped = NoMapped

NextRace ==
    \/ \E d \in Drains : Tick(d)
    \/ \E d \in Drains : Audit(d)
    \/ \E d \in Drains : NewEnsure(d)
    \/ \E d \in Drains : NewDedupe(d)
    \/ \E d \in Drains : TokRead(d)
    \/ \E d \in Drains : TokRefresh(d)
    \/ \E d \in Drains : TokWrite(d)
    \/ \E d \in Drains : NewFetch(d)
    \/ \E d \in Drains : NewAppend(d)
    \/ \E d \in Drains : NewEfforts(d)
    \/ JoinExchange(1) \/ JoinEnsure(1) \/ JoinRead(1) \/ JoinWrite(1)

SpecRace == InitRace /\ [][NextRace]_vars

\* the same steps (the drain loop without the delete handler) on the
\* update events
SpecUpdate == InitUpdate /\ [][NextRefresh]_vars

\* the verification endpoint alone, for every pair of configured secrets
InitVerify ==
    /\ inboxQ = <<>>
    /\ queueBusy = FALSE
    /\ pc = [d \in Drains |-> "idle"]
    /\ evt = [d \in Drains |-> NoEvt]
    /\ loc = [d \in Drains |-> NoLoc]
    /\ tabs = FreshStore
    /\ now = 0
    /\ issued = 1
    /\ nPost = 0
    /\ resp = [u \in 1..MaxEvents |-> 0]
    /\ deq = 0
    /\ outcome = "ok"
    /\ secrets \in SecretValues \X SecretValues
    /\ verify = NoProbe
    /\ join = NoJoins
    /\ mapped = NoMapped

NextVerify == \E q \in Requests : GetWebhook(q)

SpecVerify == InitVerify /\ [][NextVerify]_vars

(***************************************************************************)
(* Properties                                                              *)
(***************************************************************************)
ActRows == tabs["activities"].rows
EffRows == tabs["segment_efforts"].rows

\* the rows of a tab that carry the activity id, and the others, in order
RowsOf(rows, id) == SelectSeq(rows, LAMBDA r : r.id.n = id)
RowsNotOf(rows, id) == SelectSeq(rows, LAMBDA r : r.id.n # id)

Active == {d \in Drains : pc[d] # "idle"}

\* C1: processing a 'create' event for an activity id that already has a
\* row in activities appends no row to activities and none to
\* segment_efforts: no step adds a row for an id that has one.
C1_CreateNeverDuplicates ==
    [][\A i \in ActivityIds :
         Len(RowsOf(ActRows, i)) > 0 =>
            /\ Len(RowsOf(ActRows', i)) <= Len(RowsOf(ActRows, i))
            /\ Len(RowsOf(EffRows', i)) <= Len(RowsOf(EffRows, i))]_vars

\* C3: in every reachable state no two rows of the activities tab carry the
\* same activity_id.
C3_ActivityIdsUnique ==
    \A i, j \in 1..Len(ActRows) : ActRows[i].id.n = ActRows[j].id.n => i = j

DeleteLabels == {"del_ensure", "del_find", "del_rows"}
InDelete(d) == pc[d] \in DeleteLabels
LeavesDelete(d) == InDelete(d) /\ pc'[d] \notin DeleteLabels

C4_AckedBeforeProcessing ==
    /\ \A i \in 1..Len(inboxQ) : resp[inboxQ[i].uid] = 200
    /\ \A d \in Active : resp[evt[d].uid] = 200
    /\ \A u \in 1..MaxEvents : u <= nPost => resp[u] = 200

\* the processing of an event has just failed and its request keeps its 200
C4_Witness ==
    /\ outcome \in {"throw_drain", "throw_handler"}
    /\ deq >= 1 /\ resp[deq] = 200

(***************************************************************************)
(* GET /webhook                                                            *)
(***************************************************************************)
\* a string without the white space around it
Core(s) ==
    LET idx == {i \in 1..Len(s) : s[i] # " "}
    IN  IF idx = {} THEN <<>>
        ELSE SubSeq(s, CHOOSE i \in idx : \A j \in idx : i <= j,
                       CHOOSE i \in idx : \A j \in idx : i >= j)

Text(p) == IF p.present THEN p.s ELSE <<>>

\* t occurs in s
Occurs(t, s) == \E i \in 1..(Len(s) - Len(t) + 1) : SubSeq(s, i, i + Len(t) - 1) = t

\* C5 (as claimed): status 200 with the challenge as body when hub.mode is
\* 'subscribe' and hub.verify_token equals the configured secret, for any
\* challenge string; 403 when the mode or the token is wrong or missing.
\* (Stated for deployments with a non-blank secret.)
C5_VerifyAsClaimed ==
    verify.asked /\ secrets[1].present /\ Core(secrets[1].s) # <<>> =>
        LET q == verify.q
            a == verify.answer[1]
            modeOk  == q.mode = Given(<<"subscribe">>)
            tokenOk == q.token = secrets[1]
        IN  /\ modeOk /\ tokenOk /\ q.challenge.present
                  => a.status = 200 /\ a.json /\ a.body = q.challenge.s
            /\ ~(modeOk /\ tokenOk) => a.status = 403

\* C5 (amended): status 200 with body {"hub.challenge": challenge} exactly
\* when, white space around them dropped and a missing parameter or an
\* unset secret taken as the empty string, hub.mode is 'subscribe' and
\* hub.verify_token equals the secret, and hub.challenge is present and
\* not empty; 403 with the fixed text in every other case.
C5_VerifyTrimmed ==
    verify.asked =>
        \A k \in {1, 2} :
            LET q == verify.q
                a == verify.answer[k]
                accepted == /\ Core(Text(q.mode)) = <<"subscribe">>
                            /\ Core(Text(q.token)) = Core(Text(secrets[k]))
                            /\ q.challenge.present /\ q.challenge.s # <<>>
            IN  IF accepted
                THEN a.status = 200 /\ a.json /\ a.body = q.challenge.s
                ELSE a.status = 403 /\ ~a.json /\ a.body = FailureBody

\* a request accepted although its mode and token are not character for
\* character 'subscribe' and the secret
C5_Witness ==
    /\ verify.asked
    /\ verify.answer[1].status = 200
    /\ verify.q.mode # Given(<<"subscribe">>)
    /\ verify.q.token # secrets[1]
    /\ secrets[1].present /\ Core(secrets[1].s) # <<>>

\* C6: a failed verification does not leak the expected token: two
\* deployments that differ in the secret only give a request whose token
\* matches neither secret the same status and body, and a 403 answer does
\* not contain the secret.
C6_FailureIndependentOfSecret ==
    verify.asked =>
        LET q == verify.q IN
        /\ ( /\ Core(Text(q.token)) # Core(Text(secrets[1]))
             /\ Core(Text(q.token)) # Core(Text(secrets[2]))
             => verify.answer[1] = verify.answer[2] )
        /\ \A k \in {1, 2} :
              verify.answer[k].status = 403 /\ Core(Text(secrets[k])) # <<>>
                 => ~Occurs(Core(Text(secrets[k])), verify.answer[k].body)

\* mode and challenge are good, the token matches neither of two different
\* secrets, and the request is refused
C6_Witness ==
    /\ verify.asked
    /\ Core(Text(verify.q.mode)) = <<"subscribe">>
    /\ verify.q.challenge.present /\ verify.q.challenge.s # <<>>
    /\ Core(Text(secrets[1])) # <<>> /\ Core(Text(secrets[2])) # <<>>
    /\ Core(Text(secrets[1])) # Core(Text(secrets[2]))
    /\ Core(Text(verify.q.token)) \notin {Core(Text(secrets[1])), Core(Text(secrets[2]))}
    /\ Core(Text(verify.q.token)) # <<>>
    /\ verify.answer[1].status = 403 /\ verify.answer[2].status = 403

(***************************************************************************)
(* The drain loop                                                          *)
(***************************************************************************)
InboxRows == tabs["inbox"].rows
InHandler(d) == pc[d] \notin {"idle", "audit"}
\* drain d takes a step
Moves(d) == <<pc[d], evt[d], loc[d]>>' # <<pc[d], evt[d], loc[d]>>

\* C7: at most one drain pass executes at any time, and only under the busy
\* flag; a drainQueue invocation that finds the flag set returns without
\* dequeuing and without touching the store, and a pass starts only when
\* the flag is clear.
C7_AtMostOneDrainPass ==
    /\ [](Cardinality(Active) <= 1 /\ (Active # {} => queueBusy))
    /\ [][/\ \A d \in Drains : pc[d] = "idle" /\ pc'[d] # "idle" => ~queueBusy
          /\ queueBusy /\ (\E d \in Drains : pc[d] = "idle") /\ outcome' = "busy_return"
                /\ outcome # "busy_return"
                => UNCHANGED <<inboxQ, queueBusy, pc, evt, loc, tabs, deq>>]_vars

\* an invocation has just returned at the busy check while a pass is running
C7_Witness ==
    /\ queueBusy /\ outcome = "busy_return"
    /\ Cardinality(Active) = 1

\* C8: events are shifted and processed in the order POST /webhook pushed
\* them: the queue holds the events after the last shifted one in arrival
\* order, each shift takes the next arrival, and the only event in
\* processing is the last shifted one, so the processing of an earlier
\* event is over when a later one starts.
C8_FifoOrder ==
    /\ [](/\ \A i \in 1..Len(inboxQ) : inboxQ[i].uid = deq + i
          /\ deq + Len(inboxQ) = nPost
          /\ \A d \in Active : evt[d].uid = deq)
    /\ [][deq' \in {deq, deq + 1}]_vars

\* the second event is in processing after the first
C8_Witness ==
    /\ deq = 2
    /\ \E d \in Active : evt[d].uid = 2 /\ InHandler(d)

Audited(e) == \E i \in 1..Len(InboxRows) : InboxRows[i] = AuditRow(e)

C10_AnyExceptionEndsPass ==
    [][\A d \in Drains :
         pc[d] # "idle" /\ Moves(d) /\ outcome' \in {"throw_drain", "throw_handler"} =>
            /\ pc'[d] = "idle"
            /\ ~queueBusy'
            /\ inboxQ' = inboxQ]_vars

\* C10 (amended): an exception of the audit write ends the pass with the
\* queue left as it is; an exception inside a handler is caught there and
\* the pass goes on with the next queued event (or, in the create fallback
\* of an update, with the rest of the update); in both cases the event is
\* never in the queue or in processing again.
C10_AuditExceptionEndsPass ==
    /\ [](/\ \A i \in 1..Len(inboxQ) : inboxQ[i].uid > deq
          /\ \A d \in Active : evt[d].uid = deq)
    /\ [][/\ deq' >= deq
          /\ \A d \in Drains :
               /\ pc[d] = "audit" /\ Moves(d) /\ outcome' = "throw_drain" =>
                     pc'[d] = "idle" /\ ~queueBusy' /\ inboxQ' = inboxQ
               /\ InHandler(d) /\ Moves(d) /\ outcome' = "throw_handler" =>
                     \/ pc'[d] = "upd_lookup2" /\ evt'[d] = evt[d] /\ inboxQ' = inboxQ
                     \/ /\ inboxQ # <<>> /\ pc'[d] = "audit" /\ queueBusy'
                        /\ evt'[d] = Head(inboxQ) /\ inboxQ' = Tail(inboxQ)
                     \/ inboxQ = <<>> /\ pc'[d] = "idle" /\ ~queueBusy']_vars

\* an audit write has thrown with an event still queued: the pass is over
\* and the next arrival is still at the head of the queue
C10_Witness ==
    /\ outcome = "throw_drain" /\ Active = {} /\ ~queueBusy
    /\ Len(inboxQ) > 0 /\ inboxQ[1].uid = deq + 1

(***************************************************************************)
(* Token refresh                                                           *)
(***************************************************************************)
AthRows == tabs["athletes"].rows
\* the rows stored for the owner of the event drain d handles
StoredFor(d) == SelectSeq(AthRows, LAMBDA r : r.id.n = evt[d].owner_id)
TokenReturned(d) == pc'[d] \in {"new_fetch", "upd_fetch"}
Expiring(row, t) == row.access = 0 \/ row.exp <= t + ExpiryBuffer

\* C11 (as claimed): the token endpoint is called exactly when the stored
\* access token is absent or the stored expires_at is at most 60 seconds
\* after the current time; otherwise the stored token is returned.
C11_RefreshAsClaimed ==
    [][\A d \in Drains :
         pc[d] = "tok_read" /\ Moves(d) =>
            IF StoredFor(d) = <<>> \/ Expiring(StoredFor(d)[1], now')
            THEN pc'[d] = "tok_refresh"
            ELSE TokenReturned(d) /\ loc'[d].token = StoredFor(d)[1].access]_vars

\* C11 (amended): when the athlete's row is read, the token endpoint is
\* called exactly when the stored access token is empty or the stored
\* expires_at is at most 60 seconds after the current time, and otherwise
\* the stored token is returned with no call; when no row is found (none
\* stored, or the read failed) no call is made and no token is returned.
\* The endpoint is called from nowhere else.
C11_RefreshWhenRowIsRead ==
    [][\A d \in Drains :
         /\ pc[d] = "tok_read" /\ Moves(d) =>
               IF StoredFor(d) # <<>> /\ outcome' = "ok"
               THEN IF Expiring(StoredFor(d)[1], now')
                    THEN pc'[d] = "tok_refresh" /\ issued' = issued
                    ELSE /\ TokenReturned(d) /\ issued' = issued
                         /\ loc'[d].token = StoredFor(d)[1].access
               ELSE /\ pc'[d] # "tok_refresh" /\ ~TokenReturned(d)
                    /\ issued' = issued
         /\ issued' # issued => \E d2 \in Drains : pc[d2] = "tok_refresh"]_vars

\* a token that expires 30 seconds from now is about to be refreshed
C11_Witness ==
    \E d \in Drains :
        /\ pc[d] = "tok_refresh"
        /\ loc[d].auth.access # 0
        /\ loc[d].auth.exp = now + ClockStep

\* C12: when the token endpoint rejects the refresh, the caller gets a null
\* token and no exception (it makes no fetch with a token and its catch is
\* not entered), and the athletes tab is left as it is.
C12_RejectedRefresh ==
    [][\A d \in Drains :
         pc[d] = "tok_refresh" /\ Moves(d) /\ pc'[d] # "tok_write" =>
            /\ outcome' = "refresh_rejected"
            /\ ~TokenReturned(d)
            /\ pc'[d] = "idle" \/ loc'[d].token = 0
            /\ tabs' = tabs
            /\ issued' = issued]_vars

\* a refresh was rejected and the stored row still holds the old token
C12_Witness ==
    /\ outcome = "refresh_rejected"
    /\ Len(AthRows) = 1
    /\ AthRows[1].access = 1 /\ AthRows[1].refresh = 1
    /\ AthRows[1].exp = ClockStep

(***************************************************************************)
(* OAuth callback                                                          *)
(***************************************************************************)
\* C13: after any sequence of callbacks served one after the other, each
\* athlete_id has at most one row in the athletes tab.
C13_OneRowPerAthlete ==
    \A i, j \in 1..Len(AthRows) : AthRows[i].id.n = AthRows[j].id.n => i = j

(***************************************************************************)
(* processActivityUpdate                                                   *)
(***************************************************************************)
\* drain d runs processNewActivity on behalf of processActivityUpdate
InFallback(d) == InHandler(d) /\ loc[d].caller = "new" /\ loc[d].ret = "update"
HandlerOver(d) == pc'[d] \in {"idle", "audit"}

Shown == mapped.a.start_date_local

\* C15: local_hour is the hour of the local start timestamp, is_night_run
\* is local_hour >= 22, is_5k_plus is distance >= 5000 with a missing
\* distance counting as 0, and month is the year and month of the local
\* start date.
C15_DerivedFlags ==
    mapped.asked =>
        /\ mapped.row.local_hour = Shown.hour
        /\ mapped.row.is_night_run = (Shown.hour >= 22)
        /\ mapped.row.is_5k_plus = (OrZero(mapped.a.distance) >= 5000)
        /\ mapped.row.month = [year |-> 2024, month |-> MonthOfDay(Shown.day)]

\* C16: the week_start of mapActivityRow and of mapEffortRow is the date of
\* the Sunday on or before the local start date.
C16_WeekStartIsSunday ==
    mapped.asked =>
        LET sunday == CHOOSE day \in (Shown.day - 6)..Shown.day : DayOfWeek(day) = 0
        IN  /\ mapped.row.week_start = CalendarDate(sunday)
            /\ mapped.row.effort_week_start = CalendarDate(sunday)

(***************************************************************************)
(* Dispatch                                                                *)
(***************************************************************************)
DataTabs == {"athletes", "activities", "segment_efforts"}
Dispatched(e) ==
    e.object_type = "activity" /\ e.aspect_type \in {"create", "update", "delete"}
EntryOf(aspect) ==
    IF aspect = "create" THEN "new_ensure"
    ELSE IF aspect = "update" THEN "upd_ensure" ELSE "del_ensure"

\* C17: after its audit write an event enters the create, update or delete
\* handler exactly when it is an activity event with that aspect; for any
\* other event no handler runs, the inbox tab gets the event's row and
\* nothing else, and athletes, activities and segment_efforts stay as they
\* are.
C17_DispatchByTypeAndAspect ==
    /\ [](\A d \in Drains : InHandler(d) => Dispatched(evt[d]))
    /\ [][\A d \in Drains :
           /\ pc[d] = "audit" /\ Moves(d) /\ outcome' = "ok" =>
                 IF Dispatched(evt[d])
                 THEN pc'[d] = EntryOf(evt[d].aspect_type) /\ evt'[d] = evt[d]
                 ELSE ~InHandler(d)'
           /\ pc[d] = "audit" /\ ~Dispatched(evt[d]) =>
                 /\ \A t \in DataTabs : tabs'[t] = tabs[t]
                 /\ InboxRows' \in {InboxRows, InboxRows \o <<AuditRow(evt[d])>>}]_vars

\* an 'update' event of an athlete has been drained: it has its inbox row
\* and the pass is over
C17_Witness ==
    /\ Active = {} /\ deq = 1 /\ outcome = "ok"
    /\ InboxRows # <<>>
    /\ InboxRows[Len(InboxRows)] = [AuditRow(OtherEvent) EXCEPT !.uid = 1]

(***************************************************************************)
(* Failures inside the handlers                                            *)
(***************************************************************************)
\* C18: a failure inside the create, update or delete handler does not
\* reach the drain loop: no step of a handler ends the pass through the
\* loop's catch, and when a handler is over, failed or not, the loop shifts
\* the next queued event in the same pass, or ends the pass when the queue
\* is empty.
C18_HandlerFailuresAreSwallowed ==
    [][\A d \in Drains :
         InHandler(d) /\ Moves(d) =>
            /\ outcome' # "throw_drain"
            /\ HandlerOver(d) =>
                  IF inboxQ # <<>>
                  THEN /\ pc'[d] = "audit" /\ queueBusy'
                       /\ evt'[d] = Head(inboxQ) /\ inboxQ' = Tail(inboxQ)
                  ELSE pc'[d] = "idle" /\ ~queueBusy' /\ inboxQ' = inboxQ
            /\ ~HandlerOver(d) => evt'[d] = evt[d] /\ inboxQ' = inboxQ]_vars

\* the handler of the first event has thrown and the same pass is at the
\* audit write of the second event
C18_Witness ==
    \E d \in Drains :
        /\ pc[d] = "audit" /\ evt[d].uid = 2 /\ queueBusy
        /\ outcome = "throw_handler"

(***************************************************************************)
(* The two paths of processActivityUpdate                                  *)
(***************************************************************************)
Fetched(d) == mapActivityRow(evt[d].owner_id, StravaActivity(evt[d].object_id))
\* index in ActRows of the row the handler has found
FoundIdx(d) == RowIdx(tabs["activities"], loc[d].rowIndex)

C20_FastPathFrame ==
    [][\A d \in Drains :
         pc[d] = "upd_fast" =>
            LET u == evt[d].updates IN
            /\ \A t \in TabNames \ {"activities"} : tabs'[t] = tabs[t]
            /\ tabs'["activities"].exists = tabs["activities"].exists
            /\ tabs'["activities"].hdr = tabs["activities"].hdr
            /\ Len(ActRows') = Len(ActRows)
            /\ \A i \in 1..Len(ActRows) :
                  LET old == ActRows[i]
                      new == ActRows'[i]
                  IN  /\ new # old => old.id.n = evt[d].object_id
                      /\ [new EXCEPT !.name = old.name, !.vis = old.vis,
                                      !.sport = old.sport] = old
                      /\ new.name # old.name => u.title # Undef /\ new.name = u.title
                      /\ new.vis # old.vis =>
                            IF u.visibility # Undef THEN new.vis = u.visibility
                            ELSE u.private # Undef /\ new.vis \in {"only_me", "everyone"}
                      /\ new.sport # old.sport =>
                            IF u.type # Undef THEN new.sport = u.type
                            ELSE u.sport_type # Undef /\ new.sport = u.sport_type]_vars

\* the fast path has written the title and 'only_me' into the row of
\* activity 1, next to the untouched row of activity 2, and the slow path
\* has not started
C20_Witness ==
    \E d \in Drains :
        /\ pc[d] = "tok_read" /\ loc[d].caller = "upd" /\ loc[d].clean
        /\ Len(ActRows) = 2
        /\ ActRows[1] = [Fetched(d) EXCEPT !.name = "hook_title", !.vis = "only_me"]
        /\ ActRows[2] = mapActivityRow(1, StravaActivity(2))

(***************************************************************************)
(* A null access token                                                     *)
(***************************************************************************)
\* drain d takes the step in which ensureFreshAccessToken returns a null
\* token to the handler
NullToken(d) ==
    /\ pc[d] \in {"tok_read", "tok_refresh", "tok_write"} /\ Moves(d)
    /\ outcome' \in {"no_athlete_row", "read_failed", "refresh_rejected",
                      "token_write_failed"}
TopLevel(d) == loc[d].ret = "drain"

C22_RefreshWritesOneRow ==
    [][/\ tabs'["athletes"] # tabs["athletes"] =>
            \E d \in Drains :
               LET i == RowIdx(tabs["athletes"], loc[d].auth.rowIndex)
               IN  /\ pc[d] = "tok_write" /\ outcome' = "ok"
                   /\ loc[d].data = issued /\ issued > 1
                   /\ i \in 1..Len(AthRows)
                   /\ StrEqId(AthRows[i].id, evt[d].owner_id)
                   /\ \A j \in 1..(i - 1) : ~StrEqId(AthRows[j].id, evt[d].owner_id)
                   /\ <<AthRows[i].access, AthRows[i].refresh, AthRows[i].exp>>
                        = <<loc[d].auth.access, loc[d].auth.refresh, loc[d].auth.exp>>
                   /\ tabs'["athletes"] = [tabs["athletes"] EXCEPT !.rows =
                         [AthRows EXCEPT ![i] =
                            [id |-> AthRows[i].id, name |-> AthRows[i].name,
                             access |-> issued, refresh |-> issued,
                             exp |-> now + TokenLife]]]
       /\ \A d \in Drains :
            pc[d] = "tok_read" /\ TokenReturned(d) =>
               /\ tabs'["athletes"] = tabs["athletes"]
               /\ issued' = issued]_vars

\* a refreshed pair has been written into the owner's row, which is not
\* the first row of the tab
C22_Witness ==
    /\ issued = 2
    /\ Len(AthRows) >= 2
    /\ AthRows[1].id.n \notin AthleteIds /\ AthRows[1].access = 1
    /\ AthRows[2].access = 2 /\ AthRows[2].refresh = 2
    /\ AthRows[2].name = "runner"

(***************************************************************************)
(* What a create event appends                                             *)
(***************************************************************************)
\* the rows the handler of drain d has added to a tab since it started
Added(d, t) ==
    SubSeq(tabs[t].rows, Len(loc[d].before[t]) + 1, Len(tabs[t].rows))
KeptRows(d, t) ==
    SubSeq(tabs[t].rows, 1, Len(loc[d].before[t])) = loc[d].before[t]
\* the event of drain d is for an id that activities did not hold
NewId(d) ==
    \A i \in 1..Len(loc[d].before.activities) :
        loc[d].before.activities[i].id.n # evt[d].object_id
\* drain d leaves processNewActivity after a successful fetch
AfterFetch(d) ==
    /\ pc[d] \in {"new_append", "new_efforts"} /\ Moves(d)
    /\ pc'[d] # "new_efforts"
OneAndN(d) ==
    LET efforts == EffortsOf(evt[d].object_id) IN
    /\ KeptRows(d, "activities")' /\ KeptRows(d, "segment_efforts")'
    /\ Len(ActRows') = Len(loc[d].before.activities) + 1
    /\ ActRows'[Len(ActRows')] = Fetched(d)
    /\ Len(EffRows') = Len(loc[d].before.segment_efforts) + Len(efforts)
    /\ \A i \in 1..Len(efforts) :
          LET row == EffRows'[Len(loc[d].before.segment_efforts) + i]
          IN  row.id = IdCell(evt[d].object_id) /\ row.seg = efforts[i]

KeptOf(tab, S) ==
    LET keep == {i \in 1..Len(tab.rows) : (i + Off(tab)) \notin S}
    IN  [k \in 1..Cardinality(keep) |->
           tab.rows[CHOOSE i \in keep : Cardinality({j \in keep : j <= i}) = k]]

\* C24: for distinct row indices of a tab, the requests of deleteRows are
\* one single-row deletion per index, in descending order of index, and
\* applying them in that order leaves exactly the rows that were not at
\* those indices, in their original order.
C24_DescendingBatchRemovesExactly ==
    mapped.asked =>
        LET before == mapped.row.tab
            S == Range(mapped.row.indices)
            reqs == mapped.row.requests
        IN  /\ Len(reqs) = Cardinality(S) /\ Range(reqs) = S
            /\ \A i \in 1..(Len(reqs) - 1) : reqs[i] > reqs[i + 1]
            /\ tabs["activities"] = ApplyDeletes(before, reqs)
            /\ tabs["activities"].rows = KeptOf(before, S)
            /\ tabs["activities"].hdr = (before.hdr /\ 1 \notin S)
            /\ Len(tabs["activities"].rows) + Off(tabs["activities"])
                 = Len(before.rows) + Off(before) - Cardinality(S)

\* three rows given in ascending order have gone from the middle of a tab
C24_Witness ==
    /\ mapped.asked
    /\ mapped.row.indices = <<2, 3, 4>>
    /\ mapped.row.tab.hdr /\ Len(mapped.row.tab.rows) = 4
    /\ Len(ActRows) = 1 /\ ActRows[1].id.n = 4

(***************************************************************************)
(* Row mapping as a function of its input                                  *)
(***************************************************************************)
\* C25: mapping the same activity and effort twice gives the same derived
\* columns (local_hour, is_night_run, week_start, month), whatever the time
\* zones of the processes that do the mapping.
C25_RowsDependOnInputOnly ==
    mapped.asked => mapped.row[1] = mapped.row[2]

(***************************************************************************)
(* Pushing while a pass runs                                               *)
(***************************************************************************)
\* C26: POST /webhook can always push, and its push puts exactly the one
\* event at the tail of the queue and touches nothing of the drain loop;
\* an event leaves the queue only by the shift that hands it, the head of
\* the queue, to the running pass, and it was never shifted before; a pass
\* that is not ended by an exception goes on until the queue is empty, so
\* it takes the events pushed while it ran.
C26_PushDuringPass ==
    /\ [](nPost < MaxEvents => \A e \in PostedEvents : ENABLED PostWebhook(e))
    /\ [][nPost' # nPost =>
            /\ Len(inboxQ') = Len(inboxQ) + 1
            /\ SubSeq(inboxQ', 1, Len(inboxQ)) = inboxQ
            /\ \E e \in PostedEvents :
                 inboxQ'[Len(inboxQ')] = [e EXCEPT !.uid = nPost', !.busy = queueBusy]
            /\ UNCHANGED <<queueBusy, pc, evt, loc, deq, tabs>>]_vars
    /\ [][inboxQ' # inboxQ /\ nPost' = nPost =>
            \E d \in Drains :
               /\ inboxQ # <<>> /\ inboxQ' = Tail(inboxQ)
               /\ evt'[d] = Head(inboxQ) /\ pc'[d] = "audit"
               /\ evt'[d].uid > deq /\ deq' = evt'[d].uid
               /\ \A i \in 1..Len(inboxQ') : inboxQ'[i].uid # evt'[d].uid]_vars
    /\ [][\A d \in Drains :
            pc[d] # "idle" /\ pc'[d] = "idle" /\ outcome' # "throw_drain"
               => inboxQ = <<>> /\ inboxQ' = <<>>]_vars

\* an event that was pushed while a pass was running is now in the hands
\* of that pass or of a later one
C26_Witness ==
    \E d \in Active : evt[d].busy /\ evt[d].uid = 2 /\ InHandler(d)

(***************************************************************************)
(* A call that does not return                                             *)
(***************************************************************************)
\* C27: as long as the call a pass is waiting for has not returned (the
\* pass has not moved), the busy flag is and stays set, whatever else
\* happens: a timer tick returns at the busy check, no event is shifted,
\* no other invocation leaves its start, and the spreadsheet is not
\* written; the only thing that can happen to the queue is a push. The
\* flag is cleared by nothing but a step of the pass itself, that is, by
\* the return of its call.
C27_HungCallStallsTheLoop ==
    /\ [][\A d \in Drains :
            pc[d] # "idle" /\ ~Moves(d) =>
               /\ queueBusy /\ queueBusy'
               /\ deq' = deq /\ evt' = evt /\ pc' = pc
               /\ tabs' = tabs
               /\ inboxQ' = inboxQ \/ (nPost' # nPost /\ Len(inboxQ') = Len(inboxQ) + 1)]_vars
    /\ [][queueBusy /\ ~queueBusy' =>
            \E d \in Drains : pc[d] # "idle" /\ Moves(d) /\ pc'[d] = "idle"]_vars

\* the fetch of the first event is outstanding, the second event waits in
\* the queue, and a tick has just found the flag set
C27_Witness ==
    /\ queueBusy /\ outcome = "busy_return"
    /\ inboxQ # <<>> /\ deq = 1
    /\ \E d \in Active : pc[d] \in {"new_fetch", "upd_fetch"}

(***************************************************************************)
(* Every event is dequeued                                                 *)
(***************************************************************************)
\* C28: when the timer keeps firing and every call returns or throws, an
\* event that POST /webhook pushed is eventually shifted from the queue;
\* the step that ends a pass, by the empty queue or by an exception, leaves
\* the busy flag false, and the flag is false whenever no pass is running.
C28_EveryEventIsDequeued ==
    /\ \A u \in 1..MaxEvents : (nPost >= u) ~> (deq >= u)
    /\ [][\A d \in Drains : pc[d] # "idle" /\ pc'[d] = "idle" => ~queueBusy']_vars
    /\ [](Active = {} => ~queueBusy)

\* the pass that shifted the first event ended on an exception of its audit
\* write; a later pass has shifted the second event
C28_Witness ==
    /\ nPost = 2
    /\ \E d \in Active : evt[d].uid = 2 /\ ~evt[d].busy /\ InHandler(d)
    /\ \A i \in 1..Len(InboxRows) : InboxRows[i].uid # 1

(***************************************************************************)
(* The rows of one create event                                            *)
(***************************************************************************)
\* C29: when the create handler is over, it has added either the
\* activities row together with every segment_efforts row of the fetched
\* activity, or no row at all.
C29_CreateAllOrNothing ==
    [][\A d \in Drains :
         pc[d] # "idle" /\ loc[d].caller = "new" /\ HandlerOver(d) =>
            LET acts == Len(ActRows') - Len(loc[d].before.activities)
                effs == Len(EffRows') - Len(loc[d].before.segment_efforts)
            IN  \/ acts = 0 /\ effs = 0
                \/ acts = 1 /\ effs = Len(EffortsOf(evt[d].object_id))]_vars

(***************************************************************************)
(* The three lookups by activity id                                        *)
(***************************************************************************)
\* C30: for every stored representation of the ids, the delete handler's
\* match finds a row for an activity exactly when the create handler's
\* check sees the id as existing and exactly when the update handler's
\* lookup finds a row, and the row the update handler finds is the first
\* of the rows the delete handler matches.
C30_LookupsAgree ==
    mapped.asked =>
        /\ (mapped.row.activityRows # <<>>) = mapped.row.existing
        /\ (mapped.row.activityRows # <<>>) = (mapped.row.rowIndex # 0)
        /\ mapped.row.rowIndex # 0 => mapped.row.rowIndex = mapped.row.activityRows[1]

(***************************************************************************)
(* Header rows                                                             *)
(***************************************************************************)
\* C31: every tab that exists has its header row in sheet row 1.
C31_ExistingTabsHaveHeaders ==
    \A t \in TabNames : tabs[t].exists => tabs[t].hdr

(***************************************************************************)
(* Overlapping OAuth callbacks                                             *)
(***************************************************************************)
RowsOfAthlete(rows, a) == {i \in 1..Len(rows) : rows[i].id.n = a}

\* C32: when a callback whose read of the athletes tab succeeded has
\* written, for an athlete that had no row at the start, the tab holds
\* exactly one row for that athlete, also when another callback for the
\* same athlete is served at the same time.
C32_OverlappingUpsertsKeepOneRow ==
    [][\A c \in Callbacks :
         /\ join[c].pc = "write" /\ join[c].seen /\ join'[c].status = 200
         /\ join[c].id \notin AthleteIds
         => Cardinality(RowsOfAthlete(AthRows', join[c].id)) = 1]_vars

(***************************************************************************)
(* A refresh and a callback for the same athlete                           *)
(***************************************************************************)
\* C33: the write that ends a token refresh replaces the tokens the refresh
\* read, never tokens that an OAuth callback has stored in the row since.
C33_RefreshKeepsCallbackTokens ==
    [][\A d \in Drains :
         pc[d] = "tok_write" /\ tabs'["athletes"] # tabs["athletes"] =>
            LET i == RowIdx(tabs["athletes"], loc[d].auth.rowIndex)
            IN  /\ i \in 1..Len(AthRows)
                /\ AthRows[i].access = loc[d].auth.access
                /\ AthRows[i].refresh = loc[d].auth.refresh]_vars

(***************************************************************************)
(* Verification without a secret                                           *)
(***************************************************************************)
\* C34: when STRAVA_VERIFY_TOKEN is unset or blank, a GET /webhook request
\* whose hub.verify_token is missing or empty is not answered with 200.
C34_NoSecretNoVerification ==
    verify.asked =>
        \A k \in {1, 2} :
            /\ Core(Text(secrets[k])) = <<>>
            /\ Text(verify.q.token) = <<>>
            => verify.answer[k].status # 200

(***************************************************************************)
(* The range of the header write                                           *)
(***************************************************************************)
LetterIndex(l) ==
    IF \E i \in 1..Len(Alphabet) : Alphabet[i] = l
    THEN CHOOSE i \in 1..Len(Alphabet) : Alphabet[i] = l
    ELSE 0
RECURSIVE ColumnOf(_)
\* the number of the column that A1 notation calls by these letters
ColumnOf(letters) ==
    IF letters = <<>> THEN 0
    ELSE ColumnOf(SubSeq(letters, 1, Len(letters) - 1)) * Len(Alphabet)
         + LetterIndex(letters[Len(letters)])

====
